---- MODULE Spec2Model ----
(***************************************************************************)
(* A model of the galvanic (ayysee -> Stationeers MIPS) compiler and of    *)
(* its instruction-level simulator.                                        *)
(*                                                                         *)
(* f64 values are modelled by the integers they represent exactly; the     *)
(* source programs and instruction vectors explored stay inside that       *)
(* fragment (no division).  A Rust panic (todo!(), unwrap() on None,       *)
(* unimplemented!()) is the outcome "Panic": the call returns nothing.     *)
(***************************************************************************)
EXTENDS Integers, Sequences, FiniteSets, TLC

VARIABLES
    source,        \* what was handed over: [kind, program], an ayysee AST or, kind "mips", a target program
    compiled,      \* "none" before compilation, then the outcome: "ok", "error" (Err returned) or "panic"
    instructions,  \* Simulator.instructions
    registers,     \* Simulator.state.registers : HashMap<Register, f64>
    devices,       \* Simulator.state.devices   : HashMap<Device, HashMap<DeviceVariable, f64>>
    result,        \* what the last Simulator.tick returned ("None" before the first)
    nticks,        \* number of calls of Simulator.tick so far
    trace,         \* history of the last tick: for each instruction fetched, its index and the
                   \* registers and devices it found
    last,          \* history: the last operation applied ("new", "tick" or "write")
    written,       \* history: (device, variable) -> the value last stored by `s` or Simulator.write
    text,          \* the lines printed for the target program (Program's Display), once printed
    parsed,        \* what Program::from_str made of those lines, once parsed
    built,         \* what generate_ir left, once run: the builder's State with its outcome
    optimized,     \* what optimize made of built.program, once run: [program, err]
    allocation,    \* what RegisterAllocation::allocate computed, once run: var_to_node, the
                   \* interference graph, the colouring and the registers
    generated      \* what generate_mips_from_ir made of optimized.program, once run:
                   \* [mips, err, block_start]

vars ==
    <<source, compiled, instructions, registers, devices, result, nticks, trace, last, written,
      text, parsed, built, optimized, allocation, generated>>

(***************************************************************************)
(* Bounds of the exploration.                                              *)
(***************************************************************************)
MaxTicks == 2
MaxVal == 2
MaxLive == 17

(***************************************************************************)
(* Target machine: registers, operands, instructions.                      *)
(***************************************************************************)
GeneralRegisters ==
    <<"r0", "r1", "r2", "r3", "r4", "r5", "r6", "r7",
      "r8", "r9", "r10", "r11", "r12", "r13", "r14", "r15">>

Register == {GeneralRegisters[i] : i \in 1..16} \cup {"sp", "ra"}

Reg(r) == [k |-> "Register", r |-> r]
Num(n) == [k |-> "Number", n |-> n]
Label(s) == [k |-> "Label", name |-> s]

\* HashMap lookups with a default, and inserts
MapGet(m, key, default) == IF key \in DOMAIN m THEN m[key] ELSE default
MapPut(m, key, v) == [x \in (DOMAIN m) \cup {key} |-> IF x = key THEN v ELSE m[x]]
EmptyMap == [x \in {} |-> 0]

\* `let r = v; K(r)`
Bind(v, K(_)) == K(v)

(***************************************************************************)
(* Simulator (crates/compiler/src/simulator.rs).  A simulator state is a   *)
(* record [registers, devices, res, trace]; res is "Running" inside the    *)
(* loop of tick and the TickResult (or "Panic") once the loop is left.     *)
(***************************************************************************)
LimitPerTick == 127

sp(st) == MapGet(st.registers, "sp", 0)

set_sp(st, v) == [st EXCEPT !.registers = MapPut(st.registers, "sp", v)]

read(st, r) ==
    IF r.k = "Register" THEN MapGet(st.registers, r.r, 0) ELSE r.n

read_bool(st, v) == read(st, v) # 0

BoolToNum(b) == IF b THEN 1 ELSE 0

Abs(x) == IF x < 0 THEN -x ELSE x

insert_register(st, r, v) == [st EXCEPT !.registers = MapPut(st.registers, r, v)]

Panic(st) == [st EXCEPT !.res = "Panic"]

execute_logic(st, ins) ==
    CASE ins.op = "and" ->
            insert_register(st, ins.register, BoolToNum(read_bool(st, ins.a) /\ read_bool(st, ins.b)))
      [] ins.op = "or" ->
            insert_register(st, ins.register, BoolToNum(read_bool(st, ins.a) \/ read_bool(st, ins.b)))
      [] OTHER -> Panic(st)

\* div is outside the integer fragment: no explored program holds one
execute_arithmetic(st, ins) ==
    CASE ins.op = "add" -> insert_register(st, ins.register, read(st, ins.a) + read(st, ins.b))
      [] ins.op = "mul" -> insert_register(st, ins.register, read(st, ins.a) * read(st, ins.b))
      [] ins.op = "sub" -> insert_register(st, ins.register, read(st, ins.a) - read(st, ins.b))
      [] OTHER -> Panic(st)

DeviceGet(devs, d, v) == MapGet(MapGet(devs, d, EmptyMap), v, 0)

DevicePut(devs, d, v, x) == MapPut(devs, d, MapPut(MapGet(devs, d, EmptyMap), v, x))

\* execute_deviceio with an `s` that forgets the device's other variables
execute_deviceio_forgets(st, ins) ==
    CASE ins.op = "s" ->
            [st EXCEPT !.devices = MapPut(st.devices, ins.device,
                                          MapPut(EmptyMap, ins.variable, read(st, ins.register)))]
      [] ins.op = "l" ->
            LET devs == MapPut(st.devices, ins.device, MapGet(st.devices, ins.device, EmptyMap))
            IN  [st EXCEPT !.devices = devs,
                           !.registers = MapPut(st.registers, ins.register,
                                                MapGet(devs[ins.device], ins.variable, 0))]
      [] OTHER -> Panic(st)

execute_deviceio(st, ins) ==
    CASE ins.op = "s" ->
            [st EXCEPT !.devices = DevicePut(st.devices, ins.device, ins.variable, read(st, ins.register))]
      [] ins.op = "l" ->
            LET devs == MapPut(st.devices, ins.device, MapGet(st.devices, ins.device, EmptyMap))
            IN  [st EXCEPT !.devices = devs,
                           !.registers = MapPut(st.registers, ins.register,
                                                MapGet(devs[ins.device], ins.variable, 0))]
      [] OTHER -> Panic(st)

execute_misc(st, ins) ==
    IF ins.op = "move"
    THEN IF ins.a.k = "Number"
         THEN insert_register(st, ins.register, ins.a.n)
         ELSE Panic(st)
    ELSE Panic(st)

execute_select(st, ins) ==
    CASE ins.op = "sap" ->
            insert_register(st, ins.register,
                BoolToNum(Abs(read(st, ins.a) - read(st, ins.b)) < read(st, ins.c)))
      [] ins.op = "sapz" ->
            insert_register(st, ins.register, BoolToNum(Abs(read(st, ins.a)) < read(st, ins.b)))
      [] ins.op = "select" ->
            insert_register(st, ins.register,
                IF read(st, ins.a) # 0 THEN read(st, ins.b) ELSE read(st, ins.c))
      [] ins.op = "seq" -> insert_register(st, ins.register, BoolToNum(read(st, ins.a) = read(st, ins.b)))
      [] ins.op = "seqz" -> insert_register(st, ins.register, BoolToNum(read(st, ins.a) = 0))
      [] ins.op = "sge" -> insert_register(st, ins.register, BoolToNum(read(st, ins.a) >= read(st, ins.b)))
      [] ins.op = "sgez" -> insert_register(st, ins.register, BoolToNum(read(st, ins.a) >= 0))
      [] ins.op = "sgt" -> insert_register(st, ins.register, BoolToNum(read(st, ins.a) > read(st, ins.b)))
      [] ins.op = "sgtz" -> insert_register(st, ins.register, BoolToNum(read(st, ins.a) > 0))
      [] ins.op = "sle" -> insert_register(st, ins.register, BoolToNum(read(st, ins.a) <= read(st, ins.b)))
      [] ins.op = "slez" -> insert_register(st, ins.register, BoolToNum(read(st, ins.a) <= 0))
      [] ins.op = "slt" -> insert_register(st, ins.register, BoolToNum(read(st, ins.a) < read(st, ins.b)))
      [] ins.op = "sltz" -> insert_register(st, ins.register, BoolToNum(read(st, ins.a) < 0))
      [] ins.op = "sna" ->
            insert_register(st, ins.register,
                BoolToNum(Abs(read(st, ins.a) - read(st, ins.b)) >= read(st, ins.c)))
      [] ins.op = "snaz" ->
            insert_register(st, ins.register, BoolToNum(Abs(read(st, ins.a)) >= read(st, ins.b)))
      [] ins.op = "sne" -> insert_register(st, ins.register, BoolToNum(read(st, ins.a) # read(st, ins.b)))
      [] ins.op = "snez" -> insert_register(st, ins.register, BoolToNum(read(st, ins.a) # 0))
      [] OTHER -> Panic(st)

\* execute_flow with the test of beqz inverted: it branches when a is not 0
execute_flow_nonzero(st, ins) ==
    CASE ins.op = "beqz" ->
            IF read(st, ins.a) # 0
            THEN insert_register(st, "sp", read(st, ins.b) - 1)
            ELSE st
      [] ins.op = "j" ->
            CASE ins.a.k = "Label" -> Panic(st)
              [] ins.a.k = "Register" -> insert_register(st, "sp", read(st, ins.a) - 1)
              [] ins.a.k = "Number" -> insert_register(st, "sp", ins.a.n - 1)
      [] OTHER -> Panic(st)

execute_flow(st, ins) ==
    CASE ins.op = "beqz" ->
            IF read(st, ins.a) = 0
            THEN insert_register(st, "sp", read(st, ins.b) - 1)
            ELSE st
      [] ins.op = "j" ->
            CASE ins.a.k = "Label" -> Panic(st)
              [] ins.a.k = "Register" -> insert_register(st, "sp", read(st, ins.a) - 1)
              [] ins.a.k = "Number" -> insert_register(st, "sp", ins.a.n - 1)
      [] OTHER -> Panic(st)

\* HasInstruction with the last instruction out of reach
HasInstructionButLast(prog, i) == i >= 0 /\ i < Len(prog) - 1

\* instructions.get(self.sp() as usize) is Some: a negative sp wraps to a huge usize
HasInstruction(prog, i) == i >= 0 /\ i < Len(prog)

Execute(st, ins) ==
    CASE ins.cat = "Arithmetic" -> execute_arithmetic(st, ins)
      [] ins.cat = "DeviceIo" -> execute_deviceio(st, ins)
      [] ins.cat = "Misc" -> execute_misc(st, ins)
      [] ins.cat = "VariableSelection" -> execute_select(st, ins)
      [] ins.cat = "FlowControl" -> execute_flow(st, ins)
      [] ins.cat = "Logic" -> execute_logic(st, ins)
      [] OTHER -> Panic(st)

\* TickBody with a yield that leaves sp on the yield
TickBodyYieldStays(prog, st) ==
    IF st.res # "Running" THEN st
    ELSE IF ~HasInstruction(prog, sp(st)) THEN [st EXCEPT !.res = "End"]
    ELSE LET i == sp(st)
             ins == prog[i + 1]
             at == [st EXCEPT !.trace = Append(st.trace, [i |-> i, registers |-> st.registers,
                                                          devices |-> st.devices])]
         IN  IF ins.cat = "Misc" /\ ins.op = "yield"
             THEN [at EXCEPT !.res = "Yield"]
             ELSE LET after == Execute(at, ins)
                  IN  IF after.res = "Panic" THEN after ELSE set_sp(after, sp(after) + 1)

\* one iteration of the for loop of State::tick
TickBody(prog, st) ==
    IF st.res # "Running" THEN st
    ELSE IF ~HasInstruction(prog, sp(st)) THEN [st EXCEPT !.res = "End"]
    ELSE LET i == sp(st)
             ins == prog[i + 1]
             at == [st EXCEPT !.trace = Append(st.trace, [i |-> i, registers |-> st.registers,
                                                          devices |-> st.devices])]
         IN  IF ins.cat = "Misc" /\ ins.op = "yield"
             THEN [set_sp(at, sp(at) + 1) EXCEPT !.res = "Yield"]
             ELSE LET after == Execute(at, ins)
                  IN  IF after.res = "Panic" THEN after ELSE set_sp(after, sp(after) + 1)

\* n iterations of the loop (n >= 1), composed by halving; a return inside the
\* loop (res no longer "Running") skips the iterations that remain
RECURSIVE TickLoop(_, _, _)
TickLoop(prog, st, n) ==
    IF st.res # "Running" THEN st
    ELSE IF n = 1 THEN TickBody(prog, st)
    ELSE LET half == TickLoop(prog, st, n \div 2)
         IN  TickLoop(prog, half, n - (n \div 2))

\* tick with one iteration more
tick_longer(prog, regs, devs) ==
    LET st == TickLoop(prog, [registers |-> regs, devices |-> devs, res |-> "Running", trace |-> <<>>],
                       LimitPerTick + 1)
    IN  IF st.res = "Running" THEN [st EXCEPT !.res = "LimitHit"] ELSE st

tick(prog, regs, devs) ==
    LET st == TickLoop(prog, [registers |-> regs, devices |-> devs, res |-> "Running", trace |-> <<>>],
                       LimitPerTick)
    IN  IF st.res = "Running" THEN [st EXCEPT !.res = "LimitHit"] ELSE st

\* Simulator::read and Simulator::write
SimRead(devs, d, logic_type) == DeviceGet(devs, d, logic_type)

SimWrite(devs, d, logic_type, v) == DevicePut(devs, d, logic_type, v)

(***************************************************************************)
(* IR (crates/compiler/src/ir/types.rs).  BlockIds count from 0; block b   *)
(* is program.blocks[b + 1].                                               *)
(***************************************************************************)
Var(id) == [k |-> "Var", id |-> id]
External(name) == [k |-> "External", name |-> name]
Const(v) == [k |-> "Const", v |-> v]

Single(x) == [t |-> "Single", v |-> x]
Phi(args) == [t |-> "Phi", args |-> args]
BinaryOp(lhs, op, rhs) == [t |-> "BinaryOp", lhs |-> lhs, op |-> op, rhs |-> rhs]
Call(name, args) == [t |-> "Call", name |-> name, args |-> args]

Assignment(id, value) == [t |-> "Assignment", id |-> id, value |-> value]
Branch(cond, tb, fb) == [t |-> "Branch", cond |-> cond, true_block |-> tb, false_block |-> fb]
Yield == [t |-> "Yield"]

EmptyBlock == [instructions |-> <<>>, prev |-> <<>>, next |-> <<>>]

Range(s) == {s[i] : i \in DOMAIN s}

VarOrConstUsedVars(x) == IF x.k = "Var" THEN {x.id} ELSE {}

VarValueUsedVars(value) ==
    CASE value.t = "Single" -> VarOrConstUsedVars(value.v)
      [] value.t = "Phi" -> Range(value.args)
      [] value.t = "BinaryOp" -> VarOrConstUsedVars(value.lhs) \cup VarOrConstUsedVars(value.rhs)
      [] value.t = "Call" -> UNION {VarOrConstUsedVars(value.args[i]) : i \in DOMAIN value.args}

(***************************************************************************)
(* IR builder (crates/compiler/src/ir/mod.rs).  The builder state carries  *)
(* err: "ok", "panic" (a Rust panic unwound the build) or "error" (an      *)
(* anyhow error was returned); every step passes a failed state through.   *)
(***************************************************************************)
Externals ==
    {"db", "d0", "d1", "d2", "d3", "d4", "d5",
     "Activate", "AirRelease", "Charge", "ClearMemory", "Color", "CompletionRatio",
     "ElevatorLevel", "ElevatorSpeed", "Error", "ExportCount", "Filtration", "Harvest",
     "Horizontal", "HorizontalRatio", "Idle", "ImportCount", "Lock", "Maximum", "Mode",
     "On", "Open", "Output", "Plant", "PositionX", "PositionY", "Power", "PowerActual",
     "PowerPotential", "PowerRequired", "Pressure", "PressureExternal", "PressureInternal",
     "PressureSetting", "Quantity", "Ratio", "RatioCarbonDioxide", "RatioNitrogen",
     "RatioOxygen", "RatioPollutant", "RatioVolatiles", "RatioWater", "Reagents",
     "RecipeHash", "RequestHash", "RequiredPower", "Setting", "SolarAngle", "Temperature",
     "TemperatureSettings", "TotalMoles", "VelocityMagnitude", "VelocityRelativeX",
     "VelocityRelativeY", "VelocityRelativeZ", "Vertical", "VerticalRatio", "Volume"}

StateDefault ==
    [defs |-> EmptyMap,
     consts |-> EmptyMap,
     next_var |-> 1,
     program |-> [blocks |-> <<>>],
     sealed_blocks |-> {},
     unresolved_phis |-> EmptyMap,
     placeholders |-> {},   \* history: every <<block, name, id, idx>> read_variable recorded
     reads |-> 0,           \* history: the calls of read_variable that went on to the predecessors
     seals |-> 0,           \* history: the calls of seal_block that went past the early return
     err |-> "ok"]

Fail(st, how) == IF st.err = "ok" THEN [st EXCEPT !.err = how] ELSE st

new_block(st, sealed) ==
    LET id == Len(st.program.blocks)
    IN  [st |-> [st EXCEPT !.program.blocks = Append(@, EmptyBlock),
                           !.sealed_blocks = IF sealed THEN @ \cup {id} ELSE @],
         id |-> id]

connect_blocks(st, from, to) ==
    LET a == [st EXCEPT !.program.blocks[from + 1].next = Append(@, to)]
    IN  [a EXCEPT !.program.blocks[to + 1].prev = Append(@, from)]

assign(st, block, name, v) ==
    [st EXCEPT !.defs = MapPut(st.defs, name, MapPut(MapGet(st.defs, name, EmptyMap), block, v))]

push_instruction(st, block, ins) ==
    [st EXCEPT !.program.blocks[block + 1].instructions = Append(@, ins)]

add_variable(st, block, value) ==
    [st |-> push_instruction([st EXCEPT !.next_var = @ + 1], block, Assignment(st.next_var, value)),
     id |-> st.next_var]

RECURSIVE read_variable(_, _, _)
RECURSIVE ReadPrevs(_, _, _, _)

\* the loop `for prev in &prevs { all.push(self.read_variable(*prev, name)) }`
ReadPrevs(st, prevs, name, all) ==
    IF prevs = <<>> \/ st.err # "ok" THEN [st |-> st, all |-> all]
    ELSE Bind(read_variable(st, Head(prevs), name), LAMBDA r :
              ReadPrevs(r.st, Tail(prevs), name, Append(all, r.id)))

read_variable(st, block, name) ==
    IF st.err # "ok" THEN [st |-> st, id |-> 0]
    ELSE IF name \notin DOMAIN st.defs THEN [st |-> Fail(st, "panic"), id |-> 0]
    ELSE IF block \in DOMAIN st.defs[name] THEN [st |-> st, id |-> st.defs[name][block]]
    ELSE IF block \notin st.sealed_blocks
    THEN LET r == add_variable(st, block, Phi(<<>>))
             a == assign(r.st, block, name, r.id)
             entry == <<name, r.id, Len(a.program.blocks[block + 1].instructions) - 1>>
         IN  [st |-> [a EXCEPT !.unresolved_phis =
                          MapPut(a.unresolved_phis, block,
                                 Append(MapGet(a.unresolved_phis, block, <<>>), entry)),
                               !.placeholders = @ \cup {<<block>> \o entry}],
              id |-> r.id]
    ELSE IF st.reads >= Len(st.program.blocks) * Cardinality(DOMAIN st.defs)
    THEN [st |-> Fail(st, "overflow"), id |-> 0]
    ELSE Bind(ReadPrevs(assign([st EXCEPT !.next_var = @ + 1, !.reads = @ + 1], block, name,
                               st.next_var),
                        st.program.blocks[block + 1].prev, name, <<>>), LAMBDA r :
              IF r.st.err # "ok" THEN [st |-> r.st, id |-> 0]
              ELSE [st |-> push_instruction(r.st, block,
                               Assignment(st.next_var,
                                          IF Len(r.all) = 1 THEN Single(Var(r.all[1]))
                                          ELSE Phi(r.all))),
                    id |-> st.next_var])

RECURSIVE seal_block(_, _)
RECURSIVE SealPhis(_, _, _)
RECURSIVE SealReadPrevs(_, _, _, _, _)
RECURSIVE SealNext(_, _)

RECURSIVE SealReadPrevsAll(_, _, _, _, _)
\* SealReadPrevs keeping the phi's own id among the operands
SealReadPrevsAll(st, prevs, name, id, all) ==
    IF prevs = <<>> \/ st.err # "ok" THEN [st |-> st, all |-> all]
    ELSE Bind(read_variable(st, Head(prevs), name), LAMBDA r :
              SealReadPrevsAll(r.st, Tail(prevs), name, id, Append(all, r.id)))

\* the loop over prevs inside seal_block: the phi's own id is left out
SealReadPrevs(st, prevs, name, id, all) ==
    IF prevs = <<>> \/ st.err # "ok" THEN [st |-> st, all |-> all]
    ELSE Bind(read_variable(st, Head(prevs), name), LAMBDA r :
              SealReadPrevs(r.st, Tail(prevs), name, id,
                            IF r.id # id THEN Append(all, r.id) ELSE all))

RECURSIVE SealPhisAppend(_, _, _)
\* SealPhis pushing the resolved phi as a new instruction instead of overwriting
\* the placeholder
SealPhisAppend(st, block, phis) ==
    IF phis = <<>> \/ st.err # "ok" THEN st
    ELSE Bind(SealReadPrevs(st, st.program.blocks[block + 1].prev, Head(phis)[1],
                            Head(phis)[2], <<>>), LAMBDA r :
              IF r.st.err # "ok" THEN r.st
              ELSE SealPhisAppend(push_instruction(r.st, block,
                                                   Assignment(Head(phis)[2], Phi(r.all))),
                                  block, Tail(phis)))

\* the loop `for (name, id, idx) in phis`
SealPhis(st, block, phis) ==
    IF phis = <<>> \/ st.err # "ok" THEN st
    ELSE LET name == Head(phis)[1]
             id == Head(phis)[2]
             idx == Head(phis)[3]
         IN  Bind(SealReadPrevs(st, st.program.blocks[block + 1].prev, name, id, <<>>),
                  LAMBDA r :
                  IF r.st.err # "ok" THEN r.st
                  ELSE SealPhis([r.st EXCEPT !.program.blocks[block + 1].instructions[idx + 1] =
                                                 Assignment(id, Phi(r.all))],
                                block, Tail(phis)))

\* SealNext sealing no successor
SealNextNone(st, next) == st

\* the loop `for n in next { self.seal_block(n) }`
SealNext(st, next) ==
    IF next = <<>> \/ st.err # "ok" THEN st
    ELSE SealNext(seal_block(st, Head(next)), Tail(next))

\* seal_block without its early return for a block already sealed
seal_block_again(st, block) ==
    IF st.err # "ok" THEN st
    ELSE IF st.seals >= Len(st.program.blocks) THEN Fail(st, "overflow")
    ELSE Bind(SealPhis([st EXCEPT !.sealed_blocks = @ \cup {block},
                                  !.unresolved_phis = [b \in (DOMAIN @) \ {block} |-> @[b]],
                                  !.seals = @ + 1],
                       block, MapGet(st.unresolved_phis, block, <<>>)), LAMBDA b :
              IF b.err # "ok" THEN b
              ELSE SealNext(b, b.program.blocks[block + 1].next))

\* a walk that goes on after as many calls as it has places to go to has come
\* back to one of them and does not return: "overflow"
seal_block(st, block) ==
    IF st.err # "ok" \/ block \in st.sealed_blocks THEN st
    ELSE IF st.seals >= Len(st.program.blocks) THEN Fail(st, "overflow")
    ELSE Bind(SealPhis([st EXCEPT !.sealed_blocks = @ \cup {block},
                                  !.unresolved_phis = [b \in (DOMAIN @) \ {block} |-> @[b]],
                                  !.seals = @ + 1],
                       block, MapGet(st.unresolved_phis, block, <<>>)), LAMBDA b :
              IF b.err # "ok" THEN b
              ELSE SealNext(b, b.program.blocks[block + 1].next))

init(st) == [st EXCEPT !.consts = [e \in Externals |-> External(e)]]

(***************************************************************************)
(* AST (crates/parser/src/ast.rs).                                         *)
(***************************************************************************)
ExprConstant(v) == [t |-> "Constant", v |-> v]
ExprIdentifier(name) == [t |-> "Identifier", name |-> name]
ExprBinaryOp(lhs, op, rhs) == [t |-> "BinaryOp", lhs |-> lhs, op |-> op, rhs |-> rhs]
ExprUnaryOp(op, e) == [t |-> "UnaryOp", op |-> op, e |-> e]
ExprFunctionCall(name, args) == [t |-> "FunctionCall", name |-> name, args |-> args]
ExprFieldExpr(d, logic) == [t |-> "FieldExpr", d |-> d, logic |-> logic]

StmtFunctionCall(identifier, arguments) ==
    [t |-> "FunctionCall", identifier |-> identifier, arguments |-> arguments]
StmtDefinition(identifier, expression) ==
    [t |-> "Definition", identifier |-> identifier, expression |-> expression]
StmtAssignment(lhs, rhs) == [t |-> "Assignment", lhs |-> lhs, rhs |-> rhs]
StmtConstant(identifier, expression) ==
    [t |-> "Constant", identifier |-> identifier, expression |-> expression]
StmtIf(condition, body) == [t |-> "If", condition |-> condition, body |-> body]
StmtIfElse(condition, body, else_body) ==
    [t |-> "IfElse", condition |-> condition, body |-> body, else_body |-> else_body]
StmtLoop(body) == [t |-> "Loop", body |-> body]
StmtYield == [t |-> "Yield"]
StmtReturn(e) == [t |-> "Return", e |-> e]

RECURSIVE process_expr(_, _, _)
RECURSIVE ProcessArgs(_, _, _, _)
RECURSIVE process_stmts(_, _, _)
RECURSIVE process_cond(_, _, _, _, _)

\* `args.iter().map(|a| process_expr(state, block, a)).collect()`
ProcessArgs(st, block, args, out) ==
    IF args = <<>> \/ st.err # "ok" THEN [st |-> st, v |-> out]
    ELSE Bind(process_expr(st, block, Head(args)), LAMBDA r :
              ProcessArgs(r.st, block, Tail(args), Append(out, r.v)))

\* add_variable on the state a sub-expression left, as a process_expr result
AddValue(st, block, value) ==
    IF st.err # "ok" THEN [st |-> st, v |-> Const(0)]
    ELSE [st |-> add_variable(st, block, value).st, v |-> Var(st.next_var)]

\* process_expr looking an identifier up in defs before consts
process_expr_defs_first(st, block, expr) ==
    IF st.err # "ok" THEN [st |-> st, v |-> Const(0)]
    ELSE CASE expr.t = "Constant" -> [st |-> st, v |-> Const(expr.v)]
           [] expr.t = "Identifier" ->
                IF expr.name \notin DOMAIN st.defs /\ expr.name \in DOMAIN st.consts
                THEN [st |-> st, v |-> st.consts[expr.name]]
                ELSE Bind(read_variable(st, block, expr.name), LAMBDA r :
                          [st |-> r.st, v |-> Var(r.id)])
           [] expr.t = "BinaryOp" ->
                Bind(process_expr(st, block, expr.lhs), LAMBDA l :
                Bind(process_expr(l.st, block, expr.rhs), LAMBDA r :
                     AddValue(r.st, block, BinaryOp(l.v, expr.op, r.v))))
           [] expr.t = "UnaryOp" -> [st |-> Fail(st, "panic"), v |-> Const(0)]
           [] expr.t = "FunctionCall" ->
                Bind(ProcessArgs(st, block, expr.args, <<>>), LAMBDA r :
                     AddValue(r.st, block, Call(expr.name, r.v)))
           [] expr.t = "FieldExpr" ->
                Bind(ProcessArgs(st, block, <<ExprIdentifier(expr.d), ExprIdentifier(expr.logic)>>,
                                 <<>>), LAMBDA r :
                     AddValue(r.st, block, Call("load", r.v)))

process_expr(st, block, expr) ==
    IF st.err # "ok" THEN [st |-> st, v |-> Const(0)]
    ELSE CASE expr.t = "Constant" -> [st |-> st, v |-> Const(expr.v)]
           [] expr.t = "Identifier" ->
                IF expr.name \in DOMAIN st.consts
                THEN [st |-> st, v |-> st.consts[expr.name]]
                ELSE Bind(read_variable(st, block, expr.name), LAMBDA r :
                          [st |-> r.st, v |-> Var(r.id)])
           [] expr.t = "BinaryOp" ->
                Bind(process_expr(st, block, expr.lhs), LAMBDA l :
                Bind(process_expr(l.st, block, expr.rhs), LAMBDA r :
                     AddValue(r.st, block, BinaryOp(l.v, expr.op, r.v))))
           [] expr.t = "UnaryOp" -> [st |-> Fail(st, "panic"), v |-> Const(0)]
           [] expr.t = "FunctionCall" ->
                Bind(ProcessArgs(st, block, expr.args, <<>>), LAMBDA r :
                     AddValue(r.st, block, Call(expr.name, r.v)))
           [] expr.t = "FieldExpr" ->
                Bind(ProcessArgs(st, block, <<ExprIdentifier(expr.d), ExprIdentifier(expr.logic)>>,
                                 <<>>), LAMBDA r :
                     AddValue(r.st, block, Call("load", r.v)))

\* `match v { VarOrConst::Var(id) => id, _ => state.add_variable(block, Single(v)) }`
ValueId(r, block) ==
    IF r.st.err # "ok" THEN [st |-> r.st, id |-> 0]
    ELSE IF r.v.k = "Var" THEN [st |-> r.st, id |-> r.v.id]
    ELSE add_variable(r.st, block, Single(r.v))

\* one iteration of the loop of process_stmts
ProcessStmt(st, block, stmt) ==
    CASE stmt.t = "FunctionCall" ->
            Bind(ProcessArgs(st, block, stmt.arguments, <<>>), LAMBDA r :
                 [st |-> AddValue(r.st, block, Call(stmt.identifier, r.v)).st, block |-> block])
      [] stmt.t = "Definition" ->
            Bind(ValueId(process_expr(st, block, stmt.expression), block), LAMBDA a :
                 IF a.st.err # "ok" THEN [st |-> a.st, block |-> block]
                 ELSE [st |-> assign(a.st, block, stmt.identifier, a.id), block |-> block])
      [] stmt.t = "Assignment" ->
            Bind(ValueId(process_expr(st, block, stmt.rhs), block), LAMBDA a :
                 IF a.st.err # "ok" THEN [st |-> a.st, block |-> block]
                 ELSE CASE stmt.lhs.t = "Identifier" ->
                             [st |-> assign(a.st, block, stmt.lhs.name, a.id), block |-> block]
                        [] stmt.lhs.t = "FieldExpr" ->
                             Bind(ProcessArgs(a.st, block,
                                              <<ExprIdentifier(stmt.lhs.d),
                                                ExprIdentifier(stmt.lhs.logic)>>, <<>>),
                                  LAMBDA r :
                                  [st |-> AddValue(r.st, block,
                                                   Call("store", Append(r.v, Var(a.id)))).st,
                                   block |-> block])
                        [] OTHER -> [st |-> Fail(a.st, "error"), block |-> block])
      [] stmt.t = "Constant" ->
            Bind(process_expr(st, block, stmt.expression), LAMBDA r :
                 IF r.st.err # "ok" THEN [st |-> r.st, block |-> block]
                 ELSE [st |-> [r.st EXCEPT !.consts = MapPut(@, stmt.identifier, r.v)],
                       block |-> block])
      [] stmt.t \in {"If", "IfElse"} ->
            process_cond(st, block, stmt.condition, stmt.body,
                         IF stmt.t = "If" THEN <<>> ELSE stmt.else_body)
      [] stmt.t = "Loop" ->
            Bind(new_block(st, FALSE), LAMBDA n :
            Bind(new_block(n.st, FALSE), LAMBDA b :
            Bind(process_stmts(connect_blocks(b.st, block, b.id), b.id, stmt.body), LAMBDA body :
                 IF body.st.err # "ok" THEN [st |-> body.st, block |-> block]
                 ELSE Bind(connect_blocks(body.st, body.block, b.id), LAMBDA d :
                           [st |-> IF block \in d.sealed_blocks THEN seal_block(d, b.id) ELSE d,
                            block |-> n.id]))))
      [] stmt.t = "Yield" -> [st |-> push_instruction(st, block, Yield), block |-> block]
      [] OTHER -> [st |-> Fail(st, "error"), block |-> block]

process_stmts(st, block, statements) ==
    IF statements = <<>> \/ st.err # "ok" THEN [st |-> st, block |-> block]
    ELSE Bind(ProcessStmt(st, block, Head(statements)), LAMBDA r :
              process_stmts(r.st, r.block, Tail(statements)))

process_cond(st, block_id, cond_expr, true_block, false_block) ==
    Bind(block_id \in st.sealed_blocks, LAMBDA sealed :
    Bind(process_expr(st, block_id, cond_expr), LAMBDA cond :
         IF cond.st.err # "ok" THEN [st |-> cond.st, block |-> block_id]
         ELSE
    Bind(new_block(cond.st, sealed), LAMBDA t :
    Bind(process_stmts(connect_blocks(t.st, block_id, t.id), t.id, true_block), LAMBDA tend :
         IF tend.st.err # "ok" THEN [st |-> tend.st, block |-> block_id]
         ELSE
    Bind(new_block(tend.st, sealed), LAMBDA f :
    Bind(process_stmts(connect_blocks(f.st, block_id, f.id), f.id, false_block), LAMBDA fend :
         IF fend.st.err # "ok" THEN [st |-> fend.st, block |-> block_id]
         ELSE
    Bind(new_block(push_instruction(fend.st, block_id, Branch(cond.v, t.id, f.id)), sealed),
         LAMBDA j :
         [st |-> connect_blocks(connect_blocks(j.st, tend.block, j.id), fend.block, j.id),
          block |-> j.id])))))))

generate_ir(program) ==
    Bind(new_block(StateDefault, TRUE), LAMBDA b : process_stmts(init(b.st), b.id, program).st)

(***************************************************************************)
(* Optimizer (crates/compiler/src/ir/optimize.rs).                         *)
(***************************************************************************)
\* positions <<block, index>> (both from 0) of the Assignments of var_id
DefPositions(program, var_id) ==
    {p \in UNION {{<<b - 1, i - 1>> : i \in DOMAIN program.blocks[b].instructions} :
                  b \in DOMAIN program.blocks} :
        LET ins == program.blocks[p[1] + 1].instructions[p[2] + 1]
        IN  ins.t = "Assignment" /\ ins.id = var_id}

PosBefore(p, q) == p[1] < q[1] \/ (p[1] = q[1] /\ p[2] <= q[2])

\* InlineState::find_var and register_allocation::find_var: the first Assignment
\* of var_id in block order; <<-1, -1>> where the code panics
find_var(program, var_id) ==
    LET hits == DefPositions(program, var_id)
    IN  IF hits = {} THEN <<-1, -1>>
        ELSE CHOOSE p \in hits : \A q \in hits : PosBefore(p, q)

InstructionOf(program, pos) == program.blocks[pos[1] + 1].instructions[pos[2] + 1]

get_value(program, id) == InstructionOf(program, find_var(program, id)).value

SetInstruction(program, pos, ins) ==
    [program EXCEPT !.blocks[pos[1] + 1].instructions[pos[2] + 1] = ins]

AssignedVars(program) ==
    {ins.id : ins \in {x \in UNION {Range(program.blocks[b].instructions) : b \in DOMAIN program.blocks} :
                          x.t = "Assignment"}}

RECURSIVE inline_variable(_, _)
RECURSIVE InlineArgs(_, _, _)

\* `if let VarValue::Single(s) = next_value { return s.clone(); }` and the v.clone()
\* after the match; a is the state inline_variable left
NextValue(a, v) ==
    IF a.err = "ok" /\ get_value(a.program, v.id).t = "Single"
    THEN [is |-> a, v |-> get_value(a.program, v.id).v]
    ELSE [is |-> a, v |-> v]

\* the closure inline_simple; is = [inlined, program, err] and, as history, calls:
\* the calls of inline_variable that went past the early return
inline_simple(is, v) ==
    IF is.err = "ok" /\ v.k = "Var" THEN NextValue(inline_variable(is, v.id), v)
    ELSE [is |-> is, v |-> v]

RECURSIVE InlineArgsRest(_, _, _)
\* `.iter().map(|a| inline_simple(a, state, program))`
InlineArgs(is, args, out) ==
    IF args = <<>> \/ is.err # "ok" THEN [is |-> is, v |-> out]
    ELSE InlineArgsRest(inline_simple(is, Head(args)), Tail(args), out)

\* the arguments after the one inline_simple returned r for
InlineArgsRest(r, args, out) == InlineArgs(r.is, args, Append(out, r.v))

\* the instruction at pos replaced by the assignment of `value` to id, unless inlining failed
Inlined(r, pos, id, value) ==
    IF r.is.err # "ok" THEN r.is
    ELSE [r.is EXCEPT !.program = SetInstruction(@, pos, Assignment(id, value))]

\* the arms of `match value`, once the operands went through inline_simple (r)
InlinedSingle(r, pos, id) == Inlined(r, pos, id, Single(r.v))

InlinedPhi(r, pos, id) ==
    IF r.is.err = "ok" /\ Cardinality(Range(r.v)) # 1 THEN r.is
    ELSE Inlined(r, pos, id, Single(r.v[1]))

InlinedBinaryOp(l, r, pos, id, op) == Inlined(r, pos, id, BinaryOp(l.v, op, r.v))

InlinedRhs(l, rhs, pos, id, op) == InlinedBinaryOp(l, inline_simple(l.is, rhs), pos, id, op)

InlinedCall(r, pos, id, name) == Inlined(r, pos, id, Call(name, r.v))

\* `match value` of inline_variable; a is the state with id in `inlined`
InlineValue(a, id, pos, value) ==
    CASE value.t = "Single" -> InlinedSingle(inline_simple(a, value.v), pos, id)
      [] value.t = "Phi" ->
            InlinedPhi(InlineArgs(a, [i \in DOMAIN value.args |-> Var(value.args[i])], <<>>),
                       pos, id)
      [] value.t = "BinaryOp" ->
            InlinedRhs(inline_simple(a, value.lhs), value.rhs, pos, id, value.op)
      [] value.t = "Call" -> InlinedCall(InlineArgs(a, value.args, <<>>), pos, id, value.name)

inline_variable(is, id) ==
    CASE is.err # "ok" \/ id \in is.inlined -> is
      [] is.err = "ok" /\ id \notin is.inlined
         /\ is.calls >= Cardinality(AssignedVars(is.program)) -> [is EXCEPT !.err = "overflow"]
      [] is.err = "ok" /\ id \notin is.inlined
         /\ is.calls < Cardinality(AssignedVars(is.program))
         /\ find_var(is.program, id) = <<-1, -1>> ->
            [is EXCEPT !.inlined = @ \cup {id}, !.calls = @ + 1, !.err = "panic"]
      [] OTHER ->
            InlineValue([is EXCEPT !.inlined = @ \cup {id}, !.calls = @ + 1], id,
                        find_var(is.program, id),
                        InstructionOf(is.program, find_var(is.program, id)).value)

RECURSIVE InlineAll(_, _)
\* `for id in vars { inline_variable(id, &mut state, program) }`, vars in the order given
InlineAll(is, order) ==
    IF order = <<>> \/ is.err # "ok" THEN is
    ELSE InlineAll(inline_variable(is, Head(order)), Tail(order))

RECURSIVE SortedSeq(_)
SortedSeq(S) ==
    IF S = {} THEN <<>>
    ELSE LET m == CHOOSE x \in S : \A y \in S : x <= y
         IN  <<m>> \o SortedSeq(S \ {m})

Reverse(s) == [i \in DOMAIN s |-> s[Len(s) + 1 - i]]

\* the iteration order of the HashSet `vars` is not fixed by the code: those explored
InlineOrders == {"ascending", "descending"}

HashSetOrder(S, how) == IF how = "ascending" THEN SortedSeq(S) ELSE Reverse(SortedSeq(S))

\* returns [program, err, calls]
inline(program, how) ==
    Bind(InlineAll([inlined |-> {}, program |-> program, calls |-> 0, err |-> "ok"],
                   HashSetOrder(AssignedVars(program), how)), LAMBDA r :
         [program |-> r.program, err |-> r.err, calls |-> r.calls])

\* every instruction with its position, in block then instruction order
RECURSIVE Flatten(_, _)
Flatten(program, b) ==
    IF b > Len(program.blocks) THEN <<>>
    ELSE [i \in DOMAIN program.blocks[b].instructions |->
             [pos |-> <<b - 1, i - 1>>, ins |-> program.blocks[b].instructions[i]]]
         \o Flatten(program, b + 1)

VarIdsOf(args) == SelectSeq(args, LAMBDA x : x.k = "Var")

\* what the first scan of remove_unused_variables pushes for one instruction
DceRoots(ins) ==
    CASE ins.t = "Assignment" /\ ins.value.t = "Call" /\ ins.value.name = "store" ->
            <<ins.id>> \o [i \in DOMAIN VarIdsOf(ins.value.args) |-> VarIdsOf(ins.value.args)[i].id]
      [] ins.t = "Branch" /\ ins.cond.k = "Var" -> <<ins.cond.id>>
      [] OTHER -> <<>>

RECURSIVE DceScan(_)
DceScan(flat) == IF flat = <<>> THEN <<>> ELSE DceRoots(Head(flat).ins) \o DceScan(Tail(flat))

\* pos: the last Assignment of id wins the HashMap insert; <<-1, -1>> where pos.get(&id) is None
DcePos(program, id) ==
    LET hits == DefPositions(program, id)
    IN  IF hits = {} THEN <<-1, -1>>
        ELSE CHOOSE p \in hits : \A q \in hits : PosBefore(q, p)

\* operands looked at when `id` is popped, in the order the code visits them
DceOperands(value) ==
    CASE value.t = "Single" -> <<value.v>>
      [] value.t = "BinaryOp" -> <<value.lhs, value.rhs>>
      [] value.t = "Call" -> value.args
      [] value.t = "Phi" -> [i \in DOMAIN value.args |-> Var(value.args[i])]

RECURSIVE DceMaybeAdd(_, _, _)
\* maybe_add over the operands: [stack, used]
DceMaybeAdd(ops, stack, used) ==
    IF ops = <<>> THEN [stack |-> stack, used |-> used]
    ELSE IF Head(ops).k = "Var" /\ Head(ops).id \notin used
    THEN DceMaybeAdd(Tail(ops), Append(stack, Head(ops).id), used \cup {Head(ops).id})
    ELSE DceMaybeAdd(Tail(ops), stack, used)

RECURSIVE DceLoop(_, _, _)
\* `while !stack.is_empty()`: [used, err]
DceLoop(program, stack, used) ==
    IF stack = <<>> THEN [used |-> used, err |-> "ok"]
    ELSE LET id == stack[Len(stack)]
             rest == SubSeq(stack, 1, Len(stack) - 1)
             p == DcePos(program, id)
         IN  IF p = <<-1, -1>> THEN [used |-> used, err |-> "panic"]
             ELSE LET r == DceMaybeAdd(DceOperands(InstructionOf(program, p).value), rest,
                                       used \cup {id})
                  IN  DceLoop(program, r.stack, r.used)

\* remove_unused_variables removing nothing
remove_unused_variables_none(program) ==
    [program |-> program, removed_any |-> FALSE, err |-> "ok"]

\* returns [program, removed_any, err]
remove_unused_variables(program) ==
    Bind(DceScan(Flatten(program, 1)), LAMBDA stack :
    Bind(DceLoop(program, stack, Range(stack)), LAMBDA r :
         IF r.err # "ok" THEN [program |-> program, removed_any |-> FALSE, err |-> r.err]
         ELSE
    Bind([program EXCEPT !.blocks =
             [b \in DOMAIN @ |->
                 [@[b] EXCEPT !.instructions =
                     SelectSeq(@, LAMBDA x : x.t = "Assignment" => x.id \in r.used)]]],
         LAMBDA kept :
         [program |-> kept,
          removed_any |-> \E b \in DOMAIN program.blocks :
                             Len(kept.blocks[b].instructions) # Len(program.blocks[b].instructions),
          err |-> "ok"])))

\* returns [program, err], and with them what inline left (inlined), the calls
\* it made and what remove_unused_variables returned (removed_any)
optimize(program, how) ==
    Bind(inline(program, how), LAMBDA i :
         IF i.err # "ok" THEN i
         ELSE Bind(remove_unused_variables(i.program), LAMBDA d :
                   [program |-> d.program, err |-> d.err, inlined |-> i.program,
                    removed_any |-> d.removed_any, calls |-> i.calls]))

(***************************************************************************)
(* Register allocator (crates/compiler/src/ir/register_allocation.rs).     *)
(***************************************************************************)
NumColors == 16

RECURSIVE InsertAll(_, _, _)
\* `for var_id in phi { var_to_node.insert(*var_id, next) }`
InsertAll(m, keys, v) ==
    IF keys = <<>> THEN m ELSE InsertAll(MapPut(m, Head(keys), v), Tail(keys), v)

RECURSIVE PhiNodes(_, _, _)
\* first loop of allocate: [var_to_node, next]
PhiNodes(flat, var_to_node, next) ==
    IF flat = <<>> THEN [var_to_node |-> var_to_node, next |-> next]
    ELSE LET ins == Head(flat).ins
         IN  IF ins.t = "Assignment" /\ ins.value.t = "Phi"
             THEN PhiNodes(Tail(flat),
                           InsertAll(MapPut(var_to_node, ins.id, next), ins.value.args, next),
                           next + 1)
             ELSE PhiNodes(Tail(flat), var_to_node, next)

RECURSIVE RemainingNodes(_, _, _)
\* second loop of allocate
RemainingNodes(flat, var_to_node, next) ==
    IF flat = <<>> THEN [var_to_node |-> var_to_node, next |-> next]
    ELSE LET ins == Head(flat).ins
         IN  IF ins.t = "Assignment" /\ ins.id \notin DOMAIN var_to_node
             THEN RemainingNodes(Tail(flat), MapPut(var_to_node, ins.id, next), next + 1)
             ELSE RemainingNodes(Tail(flat), var_to_node, next)

VarToNode(program) ==
    Bind(Flatten(program, 1), LAMBDA flat :
    Bind(PhiNodes(flat, EmptyMap, 0), LAMBDA a :
         RemainingNodes(flat, a.var_to_node, a.next).var_to_node))

\* add_edge recording the edge at node1 alone
add_edge_oneway(edges, node1, node2) ==
    IF node1 = node2 THEN edges
    ELSE MapPut(edges, node1, MapGet(edges, node1, {}) \cup {node2})

\* Graph: edges : node -> set of nodes
add_edge(edges, node1, node2) ==
    IF node1 = node2 THEN edges
    ELSE LET a == MapPut(edges, node1, MapGet(edges, node1, {}) \cup {node2})
         IN  MapPut(a, node2, MapGet(a, node2, {}) \cup {node1})

remove_node(edges, node) ==
    [n \in (DOMAIN edges) \ {node} |-> edges[n] \ {node}]

RECURSIVE color_graph_lenient(_, _)
\* color_graph taking out nodes of degree 16 as well
color_graph_lenient(edges, colors) ==
    IF DOMAIN edges = {} THEN [ok |-> TRUE, colors |-> colors, err |-> "ok"]
    ELSE LET cands == {n \in DOMAIN edges : Cardinality(edges[n]) <= NumColors}
         IN  IF cands = {} THEN [ok |-> FALSE, colors |-> colors, err |-> "ok"]
             ELSE LET node == CHOOSE n \in cands : \A m \in cands : n <= m
                      nb == edges[node]
                  IN  Bind(color_graph_lenient(remove_node(edges, node), colors), LAMBDA r :
                      IF ~r.ok \/ r.err # "ok" THEN r
                      ELSE IF \E e \in nb : e \notin DOMAIN r.colors
                      THEN [r EXCEPT !.err = "panic"]
                      ELSE LET used_colors == {r.colors[e] : e \in nb}
                               free == {c \in 0..(NumColors - 1) : c \notin used_colors}
                           IN  IF free = {} THEN [r EXCEPT !.err = "panic"]
                               ELSE [r EXCEPT !.colors =
                                        MapPut(@, node, CHOOSE c \in free : \A d \in free : c <= d)])

RECURSIVE color_graph(_, _)
\* returns [ok, colors, err]
color_graph(edges, colors) ==
    IF DOMAIN edges = {} THEN [ok |-> TRUE, colors |-> colors, err |-> "ok"]
    ELSE LET cands == {n \in DOMAIN edges : Cardinality(edges[n]) < NumColors}
         IN  IF cands = {} THEN [ok |-> FALSE, colors |-> colors, err |-> "ok"]
             ELSE LET node == CHOOSE n \in cands : \A m \in cands : n <= m
                      nb == edges[node]
                  IN  Bind(color_graph(remove_node(edges, node), colors), LAMBDA r :
                      IF ~r.ok \/ r.err # "ok" THEN r
                      ELSE IF \E e \in nb : e \notin DOMAIN r.colors
                      THEN [r EXCEPT !.err = "panic"]
                      ELSE LET used_colors == {r.colors[e] : e \in nb}
                               free == {c \in 0..(NumColors - 1) : c \notin used_colors}
                           IN  IF free = {} THEN [r EXCEPT !.err = "panic"]
                               ELSE [r EXCEPT !.colors =
                                        MapPut(@, node, CHOOSE c \in free : \A d \in free : c <= d)])

InstructionUsedVars(ins) ==
    CASE ins.t = "Assignment" -> VarValueUsedVars(ins.value) \cup {ins.id}
      [] ins.t = "Branch" -> VarOrConstUsedVars(ins.cond)
      [] ins.t = "Yield" -> {}

RECURSIVE AddEdgesTo(_, _, _)
\* `for v in ins.used_vars() { graph.add_edge(var_to_node[&var_id], var_to_node[&v]) }`
AddEdgesTo(edges, node, nodes) ==
    IF nodes = {} THEN edges
    ELSE LET n == CHOOSE x \in nodes : TRUE
         IN  AddEdgesTo(add_edge(edges, node, n), node, nodes \ {n})

RECURSIVE ProgramPoints(_)
\* the places add_edges_rec can be called at: the instructions of the blocks and
\* the end of each block
ProgramPoints(program) ==
    Cardinality(UNION {{<<b, i>> : i \in 0..Len(program.blocks[b].instructions)} :
                          b \in DOMAIN program.blocks})

RECURSIVE add_edges_rec(_, _, _, _, _)
RECURSIVE AddEdgesNext(_, _, _, _, _)

\* `used |= add_edges_rec(..)` for one successor: r is what the call returned
UsedEither(w, r) == [r EXCEPT !.used = w.used \/ r.used]

\* the instruction at a position once the positions after it were walked (later):
\* an edge to every variable the instruction uses when var_id is used later
AddEdgesHere(later, used_vars, var_id, var_to_node) ==
    IF later.err # "ok" THEN later
    ELSE IF ~later.used THEN [later EXCEPT !.used = var_id \in used_vars]
    ELSE IF var_id \notin DOMAIN var_to_node
            \/ \E u \in used_vars : u \notin DOMAIN var_to_node
    THEN [later EXCEPT !.err = "panic"]
    ELSE [later EXCEPT
             !.used = TRUE,
             !.edges = AddEdgesTo(@, var_to_node[var_id],
                                  {var_to_node[u] : u \in used_vars})]

\* the loop over block.next at the end of a block; w = [edges, visited, used, err]
\* and, as history, calls: the calls of add_edges_rec
AddEdgesNext(w, program, next, var_id, var_to_node) ==
    IF next = <<>> \/ w.err # "ok" THEN w
    ELSE IF Head(next) \in w.visited THEN AddEdgesNext(w, program, Tail(next), var_id, var_to_node)
    ELSE AddEdgesNext(UsedEither(w, add_edges_rec([w EXCEPT !.visited = @ \cup {Head(next)},
                                                            !.used = FALSE],
                                                  program, <<Head(next), 0>>, var_id,
                                                  var_to_node)),
                      program, Tail(next), var_id, var_to_node)

add_edges_rec(w, program, pos, var_id, var_to_node) ==
    CASE w.err # "ok" -> w
      [] w.err = "ok" /\ w.calls >= ProgramPoints(program) -> [w EXCEPT !.err = "overflow"]
      [] w.err = "ok" /\ w.calls < ProgramPoints(program)
         /\ pos[2] >= Len(program.blocks[pos[1] + 1].instructions) ->
            AddEdgesNext([w EXCEPT !.used = FALSE, !.calls = @ + 1], program,
                         program.blocks[pos[1] + 1].next, var_id, var_to_node)
      [] OTHER ->
            AddEdgesHere(add_edges_rec([w EXCEPT !.calls = @ + 1], program,
                                       <<pos[1], pos[2] + 1>>, var_id, var_to_node),
                         InstructionUsedVars(
                             program.blocks[pos[1] + 1].instructions[pos[2] + 1]),
                         var_id, var_to_node)

\* what add_edges keeps of the walk
Walked(r) == [edges |-> r.edges, err |-> r.err, calls |-> r.calls]

\* returns [edges, err, calls]
add_edges(edges, program, var_id, var_to_node) ==
    LET start == find_var(program, var_id)
    IN  IF start = <<-1, -1>> THEN [edges |-> edges, err |-> "panic", calls |-> 0]
        ELSE Walked(add_edges_rec([edges |-> MapPut(edges, var_to_node[var_id],
                                                    MapGet(edges, var_to_node[var_id], {})),
                                   visited |-> {start[1]}, used |-> FALSE, calls |-> 0,
                                   err |-> "ok"],
                                  program, <<start[1], start[2] + 1>>, var_id, var_to_node))

\* history: the graph add_edges returned (r), with the most calls seen so far
MostCalls(g, r) == [r EXCEPT !.calls = IF g.calls > @ THEN g.calls ELSE @]

RECURSIVE BuildGraph(_, _, _, _)
\* `for var_id in &vars { add_edges(...) }`; calls: the most one add_edges made
BuildGraph(g, program, vars_, var_to_node) ==
    IF vars_ = <<>> \/ g.err # "ok" THEN g
    ELSE BuildGraph(MostCalls(g, add_edges(g.edges, program, Head(vars_), var_to_node)),
                    program, Tail(vars_), var_to_node)

InterferenceGraph(program) ==
    Bind(VarToNode(program), LAMBDA var_to_node :
         BuildGraph([edges |-> EmptyMap, err |-> "ok", calls |-> 0], program,
                    SortedSeq(DOMAIN var_to_node), var_to_node))

\* `(*color as u8).into()`
RegisterOfColor(color) == GeneralRegisters[color + 1]

\* RegisterAllocation::allocate: [vars, err]; err = "error" is the anyhow::ensure! failure
allocate(program) ==
    Bind(VarToNode(program), LAMBDA var_to_node :
    Bind(InterferenceGraph(program), LAMBDA g :
         IF g.err # "ok" THEN [vars |-> EmptyMap, err |-> g.err]
         ELSE
    Bind(color_graph(g.edges, EmptyMap), LAMBDA c :
         IF c.err # "ok" THEN [vars |-> EmptyMap, err |-> c.err]
         ELSE IF ~c.ok THEN [vars |-> EmptyMap, err |-> "error"]
         ELSE [vars |-> [v \in DOMAIN var_to_node |-> RegisterOfColor(c.colors[var_to_node[v]])],
               err |-> "ok"])))

(***************************************************************************)
(* Code generator (crates/compiler/src/ir/codegen.rs).  The generator      *)
(* state is cg = [mips, block_start, jump_to_end, err].                    *)
(***************************************************************************)
Devices == {"db", "d0", "d1", "d2", "d3", "d4", "d5"}

DeviceVariables == Externals \ Devices

Move(register, a) == [cat |-> "Misc", op |-> "move", register |-> register, a |-> a]
MipsYield == [cat |-> "Misc", op |-> "yield"]
Op3(cat, op, register, a, b) == [cat |-> cat, op |-> op, register |-> register, a |-> a, b |-> b]
StoreDeviceVariable(device, variable, register) ==
    [cat |-> "DeviceIo", op |-> "s", device |-> device, variable |-> variable, register |-> register]
LoadDeviceVariable(register, device, variable) ==
    [cat |-> "DeviceIo", op |-> "l", register |-> register, device |-> device, variable |-> variable]
BranchEqualZero(a, b) == [cat |-> "FlowControl", op |-> "beqz", a |-> a, b |-> b]
Jump(a) == [cat |-> "FlowControl", op |-> "j", a |-> a]

CgFail(cg, how) == IF cg.err = "ok" THEN [cg EXCEPT !.err = how] ELSE cg

Emit(cg, ins) == [cg EXCEPT !.mips = Append(@, ins)]

\* [k |-> "None"] where the code panics
var_to_register(regs, v) ==
    CASE v.k = "Var" -> IF v.id \in DOMAIN regs THEN Reg(regs[v.id]) ELSE [k |-> "None"]
      [] v.k = "External" -> [k |-> "None"]
      [] v.k = "Const" -> Num(v.v)

\* BinaryInstruction with every operator lowered to add
BinaryInstructionAdd(op, register, a, b) == Op3("Arithmetic", "add", register, a, b)

BinaryInstruction(op, register, a, b) ==
    CASE op = "Add" -> Op3("Arithmetic", "add", register, a, b)
      [] op = "Sub" -> Op3("Arithmetic", "sub", register, a, b)
      [] op = "Mul" -> Op3("Arithmetic", "mul", register, a, b)
      [] op = "Div" -> Op3("Arithmetic", "div", register, a, b)
      [] op = "Conj" -> Op3("Logic", "and", register, a, b)
      [] op = "Disj" -> Op3("Logic", "or", register, a, b)
      [] op = "Equals" -> Op3("VariableSelection", "seq", register, a, b)
      [] op = "NotEquals" -> Op3("VariableSelection", "sne", register, a, b)
      [] op = "Greater" -> Op3("VariableSelection", "sgt", register, a, b)
      [] op = "GreaterEquals" -> Op3("VariableSelection", "sge", register, a, b)
      [] op = "Lower" -> Op3("VariableSelection", "slt", register, a, b)
      [] op = "LowerEquals" -> Op3("VariableSelection", "sle", register, a, b)

IsDevice(x) == x.k = "External" /\ x.name \in Devices

IsDeviceVariable(x) == x.k = "External" /\ x.name \in DeviceVariables

generate_assignment(cg, regs, id, value) ==
    IF id \notin DOMAIN regs THEN CgFail(cg, "panic")
    ELSE LET register == regs[id]
         IN  CASE value.t = "Single" ->
                    LET a == var_to_register(regs, value.v)
                    IN  IF a.k = "None" THEN CgFail(cg, "panic") ELSE Emit(cg, Move(register, a))
               [] value.t = "BinaryOp" ->
                    LET a == var_to_register(regs, value.lhs)
                        b == var_to_register(regs, value.rhs)
                    IN  IF a.k = "None" \/ b.k = "None" THEN CgFail(cg, "panic")
                        ELSE Emit(cg, BinaryInstruction(value.op, register, a, b))
               [] value.t = "Call" ->
                    IF value.name = "store"
                    THEN IF Len(value.args) < 3 THEN CgFail(cg, "panic")
                         ELSE IF ~IsDevice(value.args[1]) \/ ~IsDeviceVariable(value.args[2])
                         THEN CgFail(cg, "panic")
                         ELSE LET r == var_to_register(regs, value.args[3])
                              IN  IF r.k = "None" THEN CgFail(cg, "panic")
                                  ELSE Emit(cg, StoreDeviceVariable(value.args[1].name,
                                                                    value.args[2].name, r))
                    ELSE IF value.name = "load"
                    THEN IF Len(value.args) < 2 THEN CgFail(cg, "panic")
                         ELSE IF ~IsDevice(value.args[1]) \/ ~IsDeviceVariable(value.args[2])
                         THEN CgFail(cg, "panic")
                         ELSE Emit(cg, LoadDeviceVariable(register, value.args[1].name,
                                                          value.args[2].name))
                    ELSE CgFail(cg, "error")
               [] value.t = "Phi" -> cg

RECURSIVE generate_block(_, _, _, _)
RECURSIVE GenerateInstructions(_, _, _, _, _)
RECURSIVE GenerateNext(_, _, _, _)

generate_branch(cg, ir, regs, cond_var, true_block_id, false_block_id) ==
    LET jeqz_idx == Len(cg.mips)
        a == var_to_register(regs, cond_var)
    IN  IF a.k = "None" THEN CgFail(cg, "panic")
        ELSE Bind(generate_block(generate_block(Emit(cg, BranchEqualZero(a, Num(-1))),
                                                ir, regs, true_block_id),
                                 ir, regs, false_block_id), LAMBDA c2 :
                  IF c2.err # "ok" THEN c2
                  ELSE IF false_block_id \notin DOMAIN c2.block_start THEN CgFail(c2, "panic")
                  ELSE [c2 EXCEPT !.mips[jeqz_idx + 1] =
                                     BranchEqualZero(a, Num(c2.block_start[false_block_id]))])

\* `for next in &block.next { self.generate_block(*next)? }`
GenerateNext(cg, ir, regs, next) ==
    IF next = <<>> \/ cg.err # "ok" THEN cg
    ELSE GenerateNext(generate_block(cg, ir, regs, Head(next)), ir, regs, Tail(next))

\* the loop over block.instructions from index i (from 1), and what follows it
GenerateInstructions(cg, ir, regs, block_id, i) ==
    LET block == ir.blocks[block_id + 1]
    IN  IF cg.err # "ok" THEN cg
        ELSE IF i > Len(block.instructions)
        THEN IF Len(block.next) >= 2 THEN CgFail(cg, "error")
             ELSE Bind(GenerateNext(cg, ir, regs, block.next), LAMBDA c :
                       IF c.err # "ok" \/ block.next # <<>> THEN c
                       ELSE [Emit(c, Jump(Num(-1))) EXCEPT !.jump_to_end = Append(@, Len(c.mips))])
        ELSE LET ins == block.instructions[i]
             IN  CASE ins.t = "Assignment" ->
                        GenerateInstructions(generate_assignment(cg, regs, ins.id, ins.value),
                                             ir, regs, block_id, i + 1)
                   [] ins.t = "Branch" ->
                        generate_branch(cg, ir, regs, ins.cond, ins.true_block, ins.false_block)
                   [] ins.t = "Yield" ->
                        GenerateInstructions(Emit(cg, MipsYield), ir, regs, block_id, i + 1)

\* generate_block with the jump to an emitted block landing one instruction late
generate_block_late(cg, ir, regs, block_id) ==
    IF cg.err # "ok" THEN cg
    ELSE IF block_id \in DOMAIN cg.block_start
    THEN Emit(cg, Jump(Num(cg.block_start[block_id] + 1)))
    ELSE IF cg.calls >= Len(ir.blocks) THEN CgFail(cg, "overflow")
    ELSE GenerateInstructions([cg EXCEPT !.block_start = MapPut(@, block_id, Len(cg.mips)),
                                         !.calls = @ + 1],
                              ir, regs, block_id, 1)

\* calls (history): the calls of generate_block that went past the early return
generate_block(cg, ir, regs, block_id) ==
    IF cg.err # "ok" THEN cg
    ELSE IF block_id \in DOMAIN cg.block_start
    THEN Emit(cg, Jump(Num(cg.block_start[block_id])))
    ELSE IF cg.calls >= Len(ir.blocks) THEN CgFail(cg, "overflow")
    ELSE GenerateInstructions([cg EXCEPT !.block_start = MapPut(@, block_id, Len(cg.mips)),
                                         !.calls = @ + 1],
                              ir, regs, block_id, 1)

\* PatchJumps leaving the placeholders as they are
PatchJumpsNone(mips, jump_to_end, target) == mips

RECURSIVE PatchJumps(_, _, _)
PatchJumps(mips, jump_to_end, target) ==
    IF jump_to_end = <<>> THEN mips
    ELSE PatchJumps([mips EXCEPT ![Head(jump_to_end) + 1] = Jump(Num(target))],
                    Tail(jump_to_end), target)

\* returns [mips, err, block_start, calls]
generate_mips_from_ir(ir) ==
    Bind(allocate(ir), LAMBDA registers_ :
         IF registers_.err # "ok"
         THEN [mips |-> <<>>, err |-> registers_.err, block_start |-> EmptyMap, calls |-> 0]
         ELSE
    Bind(generate_block([mips |-> <<>>, block_start |-> EmptyMap, jump_to_end |-> <<>>,
                         calls |-> 0, err |-> "ok"],
                        ir, registers_.vars, 0), LAMBDA cg :
         IF cg.err # "ok"
         THEN [mips |-> <<>>, err |-> cg.err, block_start |-> EmptyMap, calls |-> cg.calls]
         ELSE [mips |-> PatchJumps(cg.mips, cg.jump_to_end, Len(cg.mips)),
               err |-> "ok", block_start |-> cg.block_start, calls |-> cg.calls]))

\* ir::generate_program behind lib.rs generate_program, which unwraps the result:
\* an error returned by a stage ("error") reaches the caller of lib.rs as a panic.
\* how: the iteration order of the inline pass.  Returns [mips, err].
generate_program(program, how) ==
    Bind(generate_ir(program), LAMBDA ir :
         IF ir.err # "ok" THEN [mips |-> <<>>, err |-> ir.err]
         ELSE
    Bind(optimize(ir.program, how), LAMBDA opt :
         IF opt.err # "ok" THEN [mips |-> <<>>, err |-> opt.err]
         ELSE
    Bind(generate_mips_from_ir(opt.program), LAMBDA out :
         [mips |-> out.mips, err |-> out.err])))

(***************************************************************************)
(* Text of target programs (crates/mips/src/instructions.rs and            *)
(* instructions/misc.rs).  A line is the sequence of its whitespace-       *)
(* separated tokens: Display writes them with single spaces between, and   *)
(* split_whitespace recovers them.                                         *)
(***************************************************************************)
\* the numbers whose text the parser is handed
Numerals == -1..32

\* Display of a RegisterOrNumber / JumpDest operand
OperandText(x) == IF x.k = "Register" THEN x.r ELSE ToString(x.n)

\* an Err(Error::ParseError(..))
ParseError == [cat |-> "ParseError"]

\* str::parse::<RegisterOrNumber>
ParseOperand(tok) ==
    IF tok \in Register THEN Reg(tok)
    ELSE IF \E n \in Numerals : ToString(n) = tok
    THEN Num(CHOOSE n \in Numerals : ToString(n) = tok)
    ELSE ParseError

\* Display for Misc
MiscText(ins) ==
    IF ins.op = "move" THEN <<"move", ins.register, OperandText(ins.a)>> ELSE <<ins.op>>

\* Display for DeviceIo
DeviceIoText(ins) ==
    IF ins.op = "s" THEN <<"s", ins.device, ins.variable, OperandText(ins.register)>>
    ELSE <<"l", ins.register, ins.device, ins.variable>>

\* Display for FlowControl
FlowControlText(ins) ==
    IF ins.op = "j" THEN <<"j", OperandText(ins.a)>>
    ELSE <<ins.op, OperandText(ins.a), OperandText(ins.b)>>

\* Display for Arithmetic, Logic and VariableSelection
Op3Text(ins) == <<ins.op, ins.register, OperandText(ins.a), OperandText(ins.b)>>

\* Display for Instruction
InstructionText(ins) ==
    CASE ins.cat = "DeviceIo" -> DeviceIoText(ins)
      [] ins.cat = "FlowControl" -> FlowControlText(ins)
      [] ins.cat = "Misc" -> MiscText(ins)
      [] OTHER -> Op3Text(ins)

\* FromStr for Misc: only `yield` and `move` are recognised
ParseMisc(parts) ==
    IF parts = <<>> THEN ParseError
    ELSE IF parts[1] = "yield" THEN MipsYield
    ELSE IF parts[1] = "move"
    THEN IF Len(parts) < 3 \/ parts[2] \notin Register \/ ParseOperand(parts[3]) = ParseError
         THEN ParseError
         ELSE Move(parts[2], ParseOperand(parts[3]))
    ELSE ParseError

\* FromStr for DeviceIo
ParseDeviceIo(parts) ==
    IF Len(parts) < 4 THEN ParseError
    ELSE IF parts[1] = "s"
    THEN IF parts[2] \notin Devices \/ parts[3] \notin DeviceVariables
            \/ ParseOperand(parts[4]) = ParseError
         THEN ParseError
         ELSE StoreDeviceVariable(parts[2], parts[3], ParseOperand(parts[4]))
    ELSE IF parts[1] = "l"
    THEN IF parts[2] \notin Register \/ parts[3] \notin Devices \/ parts[4] \notin DeviceVariables
         THEN ParseError
         ELSE LoadDeviceVariable(parts[2], parts[3], parts[4])
    ELSE ParseError

\* FromStr for Arithmetic
ParseArithmetic(parts) ==
    IF Len(parts) < 4 \/ parts[1] \notin {"add", "sub", "mul", "div"} THEN ParseError
    ELSE IF parts[2] \notin Register \/ ParseOperand(parts[3]) = ParseError
            \/ ParseOperand(parts[4]) = ParseError
    THEN ParseError
    ELSE Op3("Arithmetic", parts[1], parts[2], ParseOperand(parts[3]), ParseOperand(parts[4]))

\* FromStr for Instruction: DeviceIo, then Misc, then Arithmetic, else ParseError
ParseInstruction(parts) ==
    IF ParseDeviceIo(parts) # ParseError THEN ParseDeviceIo(parts)
    ELSE IF ParseMisc(parts) # ParseError THEN ParseMisc(parts)
    ELSE IF ParseArithmetic(parts) # ParseError THEN ParseArithmetic(parts)
    ELSE ParseError

\* Display for Program: one line per instruction
ProgramText(prog) == [k \in 1..Len(prog) |-> InstructionText(prog[k])]

\* FromStr for Program: the first line that fails to parse fails the program
ParseProgram(lines) ==
    IF \E k \in 1..Len(lines) : ParseInstruction(lines[k]) = ParseError THEN ParseError
    ELSE [cat |-> "Program", instructions |-> [k \in 1..Len(lines) |-> ParseInstruction(lines[k])]]

\* nothing printed or parsed yet
NoText == [cat |-> "None"]

\* a stage of the middle end that has not run yet
NotRun == [err |-> "none"]

(***************************************************************************)
(* Source programs explored: the shapes of the tests of                    *)
(* crates/compiler/src/ir/mod.rs, varied over operands and operators.      *)
(***************************************************************************)
LoadCall(d, logic) == ExprFunctionCall("load", <<ExprIdentifier(d), ExprIdentifier(logic)>>)

StoreCall(d, logic, e) ==
    StmtFunctionCall("store", <<ExprIdentifier(d), ExprIdentifier(logic), e>>)

StoreField(d, logic, e) == StmtAssignment(ExprFieldExpr(d, logic), e)

\* let x = a; let y = b; <store of e>      and      let x = a; store x; let y = b; store y
StraightPrograms ==
    LET ArithOps == {"Add", "Sub", "Mul"}
        FirstExprs ==
            {ExprConstant(1), ExprFieldExpr("d0", "Setting"), LoadCall("d0", "Setting")}
        SecondExprs ==
            {ExprIdentifier("x"),
             ExprBinaryOp(ExprIdentifier("x"), "Add", ExprFieldExpr("d0", "Setting"))}
            \cup {ExprBinaryOp(ExprIdentifier("x"), op, ExprConstant(2)) : op \in ArithOps}
            \cup {ExprBinaryOp(ExprIdentifier("x"), "Mul", ExprIdentifier("x")),
                  ExprBinaryOp(ExprIdentifier("x"), "Sub", ExprFieldExpr("d1", "Setting"))}
        StoredExprs ==
            {ExprIdentifier("y"), ExprConstant(2),
             ExprBinaryOp(ExprIdentifier("y"), "Add", ExprIdentifier("x")),
             ExprBinaryOp(ExprFieldExpr("d0", "Setting"), "Add", ExprConstant(2))}
        StoreStmts ==
            UNION {{StoreCall("d0", "Setting", e), StoreField("d1", "Setting", e)} :
                      e \in StoredExprs}
    IN  {<<StmtDefinition("x", a), StmtDefinition("y", b), st>> :
            a \in FirstExprs, b \in SecondExprs, st \in StoreStmts}
        \cup {<<StmtDefinition("x", a), StoreCall("d0", "Setting", ExprIdentifier("x")),
                StmtDefinition("y", b), StoreField("d1", "Setting", ExprIdentifier("y"))>> :
                a \in FirstExprs, b \in SecondExprs}

\* if c { T } else { F }
CondPrograms ==
    LET Conds ==
            {ExprBinaryOp(LoadCall("d0", "Setting"), "Greater", ExprConstant(1)),
             ExprBinaryOp(ExprFieldExpr("d0", "Setting"), "Equals", ExprConstant(1)),
             ExprFieldExpr("d0", "Setting"), ExprConstant(0), ExprConstant(1)}
        ThenBodies ==
            {<<>>,
             <<StoreCall("d0", "Setting", ExprConstant(1))>>,
             <<StoreField("d1", "Setting", ExprConstant(1))>>,
             <<StoreField("d1", "Setting",
                          ExprBinaryOp(ExprFieldExpr("d0", "Setting"), "Add", ExprConstant(1))),
               StoreCall("d0", "Mode", ExprConstant(1))>>}
        ElseBodies ==
            {<<>>,
             <<StoreCall("d0", "Setting", ExprConstant(2))>>,
             <<StoreField("d2", "Setting", ExprConstant(2))>>,
             <<StoreField("d1", "Setting",
                          ExprBinaryOp(ExprFieldExpr("d0", "Setting"), "Mul", ExprConstant(2))),
               StoreCall("d2", "Mode", ExprConstant(2))>>}
    IN  {<<StmtIfElse(c, t, f)>> : c \in Conds, t \in ThenBodies, f \in ElseBodies}

\* let x = p; if c { T } [else { F }] d1.Setting = x;
VarIfPrograms ==
    LET PreExprs ==
            {ExprConstant(1), ExprFieldExpr("d0", "Setting"),
             ExprBinaryOp(ExprConstant(1), "Add", ExprConstant(1))}
        ThenDefs ==
            {<<>>,
             <<StmtAssignment(ExprIdentifier("x"), ExprConstant(2))>>,
             <<StmtDefinition("x", ExprConstant(2))>>,
             <<StmtAssignment(ExprIdentifier("x"),
                              ExprBinaryOp(ExprFieldExpr("d0", "Setting"), "Add",
                                           ExprConstant(1)))>>,
             <<StmtAssignment(ExprIdentifier("x"),
                              ExprBinaryOp(ExprIdentifier("x"), "Add", ExprConstant(1)))>>}
        ElseDefs ==
            {<<>>,
             <<StmtAssignment(ExprIdentifier("x"), ExprConstant(3))>>,
             <<StmtDefinition("x", ExprConstant(3))>>,
             <<StmtAssignment(ExprIdentifier("x"),
                              ExprBinaryOp(ExprIdentifier("x"), "Add", ExprConstant(2)))>>}
        VarIfCond == ExprBinaryOp(ExprFieldExpr("d0", "Setting"), "Greater", ExprConstant(1))
    IN  {<<StmtDefinition("x", p), StmtIfElse(VarIfCond, t, f),
           StoreField("d1", "Setting", ExprIdentifier("x"))>> :
            p \in PreExprs, t \in ThenDefs, f \in ElseDefs}
        \cup {<<StmtDefinition("x", p), StmtIf(VarIfCond, t),
                StoreField("d1", "Setting", ExprIdentifier("x"))>> :
                p \in PreExprs, t \in ThenDefs}

\* let x = 0; loop { x = x + 1; store(d0, Setting, x); yield; }
LoopProgram ==
    <<StmtDefinition("x", ExprConstant(0)),
      StmtLoop(<<StmtAssignment(ExprIdentifier("x"),
                                ExprBinaryOp(ExprIdentifier("x"), "Add", ExprConstant(1))),
                 StoreCall("d0", "Setting", ExprIdentifier("x")),
                 StmtYield>>)>>

\* Target programs handed to Simulator::new directly: every instruction of
\* MipsAlphabet alone, and followed by each instruction of MipsSecond.
MipsPrograms ==
    LET MipsAlphabet ==
            {MipsYield,
             Move("r0", Num(1)),
             Move("r0", Reg("r1")),
             Op3("Arithmetic", "add", "r0", Reg("r0"), Num(1)),
             StoreDeviceVariable("d0", "Setting", Reg("r0")),
             StoreDeviceVariable("d1", "Setting", Num(2)),
             LoadDeviceVariable("r0", "d0", "Setting"),
             LoadDeviceVariable("r1", "d1", "Mode"),
             BranchEqualZero(Reg("r0"), Num(0)),
             BranchEqualZero(Reg("r0"), Num(2)),
             Jump(Num(0)),
             Jump(Num(2)),
             Jump(Num(-1)),
             Jump(Reg("r0"))}
        MipsSecond ==
            {MipsYield,
             StoreDeviceVariable("d0", "Setting", Reg("r0")),
             BranchEqualZero(Reg("r0"), Num(0)),
             Jump(Num(0)),
             Jump(Reg("r0"))}
    IN  {<<a>> : a \in MipsAlphabet} \cup {<<a, b>> : a \in MipsAlphabet, b \in MipsSecond}

Sources ==
    {[kind |-> "straight", program |-> p] : p \in StraightPrograms}
    \cup {[kind |-> "ifelse", program |-> p] : p \in CondPrograms}
    \cup {[kind |-> "varif", program |-> p] : p \in VarIfPrograms}
    \cup {[kind |-> "loop", program |-> LoopProgram]}
    \cup {[kind |-> "mips", program |-> p] : p \in MipsPrograms}

(***************************************************************************)
(* Source programs handed to the middle end alone (generate_ir, optimize,  *)
(* RegisterAllocation::allocate), besides the ones above.                  *)
(***************************************************************************)
MiddleSources ==
    LET \* let v1 = d0.Setting; ..; let vn = d0.Setting;
        Lets(n) == [i \in 1..n |-> StmtDefinition(ToString(i), ExprFieldExpr("d0", "Setting"))]
        \* n values read before any is used, all of them handed to one call of store
        Wide(n) ==
            Lets(n) \o <<StmtFunctionCall("store",
                             <<ExprIdentifier("d0"), ExprIdentifier("Setting")>>
                             \o [i \in 1..n |-> ExprIdentifier(ToString(i))])>>
        Setting(d) == ExprFieldExpr(d, "Setting")
        Store(d, e) == StoreCall(d, "Setting", e)
        \* programs reading x, which no statement before the read defines on every path
        Undefined ==
            {<<Store("d0", ExprIdentifier("x"))>>,
             <<StmtDefinition("y", ExprBinaryOp(ExprIdentifier("x"), "Add", ExprConstant(1))),
               Store("d0", ExprIdentifier("y"))>>,
             <<StmtLoop(<<Store("d0", ExprIdentifier("x")),
                          StmtDefinition("x", ExprConstant(1)), StmtYield>>)>>,
             <<StmtIf(Setting("d0"), <<StmtDefinition("x", ExprConstant(1))>>),
               Store("d0", ExprIdentifier("x"))>>,
             <<StmtIfElse(Setting("d0"), <<StmtDefinition("x", ExprConstant(1))>>,
                          <<Store("d1", ExprConstant(2))>>),
               Store("d0", ExprIdentifier("x"))>>}
        \* programs with a statement or expression the middle end does not implement
        Unsupported ==
            {pre \o <<st>> :
                pre \in {<<>>, <<Store("d0", ExprConstant(1))>>},
                st \in {StmtReturn(ExprConstant(1)),
                        Store("d0", ExprUnaryOp("Not", ExprConstant(1))),
                        StmtDefinition("x", ExprUnaryOp("Neg", Setting("d0"))),
                        StmtAssignment(ExprConstant(1), ExprConstant(2)),
                        StmtAssignment(ExprBinaryOp(ExprConstant(1), "Add", ExprConstant(1)),
                                       ExprConstant(2))}}
        \* programs calling foo, which is not store, not load and not declared
        UnknownCall ==
            {<<StmtFunctionCall("foo", <<>>)>>,
             <<StmtFunctionCall("foo", <<ExprConstant(1)>>), Store("d0", ExprConstant(1))>>,
             <<StmtDefinition("x", ExprFunctionCall("foo", <<>>))>>,
             <<StmtDefinition("x", ExprFunctionCall("foo", <<>>)),
               Store("d0", ExprIdentifier("x"))>>,
             <<Store("d0", ExprFunctionCall("foo", <<ExprConstant(1)>>))>>,
             <<StmtIf(ExprFunctionCall("foo", <<>>), <<Store("d0", ExprConstant(1))>>)>>}
        \* ifs in ifs, ifs in loops, values read after and around them
        Nested ==
            {<<StmtDefinition("x", Setting("d0")),
               StmtIf(Setting("d1"), <<StmtIf(Setting("d2"), <<Store("d1", ExprConstant(1))>>)>>),
               Store("d0", ExprIdentifier("x"))>>,
             <<StmtDefinition("x", Setting("d0")),
               StmtIf(Setting("d1"),
                      <<StmtIf(Setting("d2"),
                               <<StmtAssignment(ExprIdentifier("x"), ExprConstant(1))>>)>>),
               Store("d0", ExprIdentifier("x"))>>,
             <<StmtDefinition("x", ExprConstant(0)),
               StmtLoop(<<Store("d0", ExprIdentifier("x")), StmtYield>>)>>,
             <<StmtDefinition("x", Setting("d0")),
               StmtLoop(<<Store("d0", ExprIdentifier("x")),
                          StmtDefinition("y", Setting("d1")),
                          Store("d1", ExprIdentifier("y")), StmtYield>>)>>,
             <<StmtDefinition("x", ExprConstant(0)),
               StmtLoop(<<StmtIf(Setting("d1"),
                                 <<StmtAssignment(ExprIdentifier("x"), ExprConstant(1))>>),
                          Store("d0", ExprIdentifier("x")), StmtYield>>)>>,
             <<StmtDefinition("x", ExprConstant(0)),
               StmtLoop(<<StmtIf(Setting("d1"),
                                 <<StmtAssignment(ExprIdentifier("x"),
                                       ExprBinaryOp(ExprIdentifier("x"), "Add",
                                                    ExprConstant(1)))>>),
                          Store("d0", ExprIdentifier("x")), StmtYield>>)>>,
             <<StmtDefinition("x", ExprConstant(0)),
               StmtLoop(<<StmtIf(Setting("d1"),
                                 <<StmtAssignment(ExprIdentifier("x"), ExprConstant(1))>>),
                          StmtDefinition("y", Setting("d2")),
                          StmtDefinition("z", Setting("d3")),
                          Store("d0", ExprIdentifier("x")),
                          Store("d1", ExprIdentifier("y")),
                          Store("d2", ExprIdentifier("z")), StmtYield>>)>>,
             <<StmtDefinition("c", Setting("d1")), StmtDefinition("x", Setting("d0")),
               StmtIfElse(ExprIdentifier("c"), <<>>,
                          <<StmtDefinition("y", Setting("d2")),
                            Store("d1", ExprIdentifier("y"))>>),
               Store("d0", ExprIdentifier("x"))>>,
             <<StmtDefinition("x", Setting("d0")),
               StmtIfElse(Setting("d1"), <<Store("d1", ExprConstant(1))>>,
                          <<StmtDefinition("y", Setting("d2")),
                            Store("d1", ExprIdentifier("y"))>>),
               Store("d0", ExprIdentifier("x"))>>,
             <<StmtDefinition("x", Setting("d0")),
               StmtIfElse(Setting("d1"),
                          <<StmtDefinition("y", Setting("d2")),
                            Store("d1", ExprIdentifier("y"))>>,
                          <<Store("d1", ExprConstant(1))>>),
               Store("d0", ExprIdentifier("x"))>>}
        \* let x = e; let y = x; let z = y; store(d0, Setting, z);
        Chain ==
            {<<StmtDefinition("x", e), StmtDefinition("y", ExprIdentifier("x")),
               StmtDefinition("z", ExprIdentifier("y")), Store("d0", ExprIdentifier("z"))>> :
                e \in {ExprConstant(1), ExprConstant(2)}}
        Bump == StmtAssignment(ExprIdentifier("x"),
                               ExprBinaryOp(ExprIdentifier("x"), "Add", ExprConstant(1)))
        \* loops in loops, in an if of a loop, statements after a loop, ifs in
        \* loops and loops in ifs around a variable read after them
        Loops ==
            {<<StmtDefinition("x", ExprConstant(0)),
               StmtLoop(<<StmtLoop(<<Bump, Store("d0", ExprIdentifier("x")), StmtYield>>)>>)>>,
             <<StmtDefinition("x", ExprConstant(0)),
               StmtLoop(<<Store("d0", ExprIdentifier("x")),
                          StmtLoop(<<Bump, StmtYield>>)>>)>>,
             <<StmtDefinition("x", ExprConstant(0)),
               StmtLoop(<<StmtIf(Setting("d1"),
                                 <<StmtLoop(<<Bump, Store("d0", ExprIdentifier("x")),
                                              StmtYield>>)>>),
                          Bump, StmtYield>>)>>,
             <<StmtDefinition("x", ExprConstant(0)),
               StmtLoop(<<StmtLoop(<<StmtYield>>), Bump, Store("d0", ExprIdentifier("x"))>>)>>,
             <<StmtDefinition("x", ExprConstant(0)), StmtLoop(<<StmtYield>>),
               Store("d0", ExprIdentifier("x"))>>,
             <<StmtDefinition("x", Setting("d0")),
               StmtLoop(<<StmtIf(Setting("d1"), <<Store("d1", ExprConstant(1))>>),
                          Store("d0", ExprIdentifier("x")), StmtYield>>)>>,
             <<StmtDefinition("x", Setting("d0")),
               StmtIf(Setting("d1"),
                      <<StmtLoop(<<Store("d0", ExprIdentifier("x")), StmtYield>>)>>)>>,
             <<StmtDefinition("x", ExprConstant(0)),
               StmtLoop(<<StmtIf(Setting("d1"), <<StmtIf(Setting("d2"), <<Bump>>)>>),
                          Store("d0", ExprIdentifier("x")), StmtYield>>)>>,
             <<StmtDefinition("x", Setting("d0")),
               StmtIf(Setting("d1"),
                      <<StmtIf(Setting("d2"), <<Store("d1", ExprConstant(1))>>),
                        Store("d1", ExprIdentifier("x"))>>),
               Store("d0", ExprIdentifier("x"))>>,
             <<StmtDefinition("x", Setting("d0")),
               StmtLoop(<<StmtIf(Setting("d1"), <<Store("d1", ExprConstant(1))>>),
                          StmtIf(Setting("d2"), <<Store("d1", ExprConstant(2))>>),
                          Store("d0", ExprIdentifier("x")), StmtYield>>)>>}
        \* a constant and a device name also bound by let or assigned, before or
        \* after the declaration, and read by the last statement
        Consts ==
            {pre \o <<StmtConstant("A", ExprConstant(c))>> \o post
                 \o <<Store("d0", ExprIdentifier("A"))>> :
                pre \in {<<>>, <<StmtDefinition("A", ExprConstant(2))>>,
                         <<StmtDefinition("A", Setting("d1"))>>},
                post \in {<<>>, <<StmtDefinition("A", ExprConstant(2))>>,
                          <<StmtAssignment(ExprIdentifier("A"), ExprConstant(2))>>,
                          <<StmtDefinition("A", ExprConstant(2)),
                            StmtAssignment(ExprIdentifier("A"), Setting("d1"))>>},
                c \in {1, 2}}
            \cup {<<StmtDefinition(n, ExprConstant(2)), st>> :
                     n \in {"d0", "Setting"},
                     st \in {Store("d0", ExprConstant(1)),
                             StoreField("d0", "Setting", ExprConstant(1))}}
            \cup {<<StmtDefinition("d1", ExprConstant(2)),
                    StmtAssignment(ExprIdentifier("d1"), ExprConstant(1)),
                    Store("d0", ExprIdentifier("d1"))>>}
    IN  {x \in Sources : x.kind # "mips"}
        \cup {[kind |-> "wide", program |-> Wide(n)] : n \in (MaxLive - 2)..MaxLive}
        \cup {[kind |-> "undefined", program |-> p] : p \in Undefined}
        \cup {[kind |-> "unsupported", program |-> p] : p \in Unsupported}
        \cup {[kind |-> "unknowncall", program |-> p] : p \in UnknownCall}
        \cup {[kind |-> "nested", program |-> p] : p \in Nested}
        \cup {[kind |-> "chain", program |-> p] : p \in Chain}
        \cup {[kind |-> "loops", program |-> p] : p \in Loops}
        \cup {[kind |-> "consts", program |-> p] : p \in Consts}

(***************************************************************************)
(* The state machine: a program is compiled (lib.rs generate_program) and  *)
(* handed to Simulator::new, or a target program is handed to it directly; *)
(* the caller then writes device variables and calls tick.                 *)
(***************************************************************************)
WriteDevices == {"d0", "d1"}

WriteVariables == {"Setting"}

Values == 0..MaxVal

\* history: the (device, variable) -> value stored last by the `s` instructions of
\* a tick that ran prog and ended in st
StoredBy(prog, st) ==
    LET n == Len(st.trace)
        ins(k) == prog[st.trace[k].i + 1]
        IsStore(k) == /\ ins(k).cat = "DeviceIo"
                      /\ ins(k).op = "s"
                      /\ (k < n \/ st.res # "Panic")
        K == {k \in 1..n : IsStore(k)}
        Stored(key) == {k \in K : <<ins(k).device, ins(k).variable>> = key}
        LastOf(key) == CHOOSE k \in Stored(key) : \A j \in Stored(key) : j <= k
        ValueAt(k) == IF ins(k).register.k = "Number" THEN ins(k).register.n
                      ELSE IF ins(k).register.r \in DOMAIN st.trace[k].registers
                      THEN st.trace[k].registers[ins(k).register.r]
                      ELSE 0
    IN  [key \in {<<ins(k).device, ins(k).variable>> : k \in K} |-> ValueAt(LastOf(key))]

Override(m, n) == [key \in DOMAIN m \cup DOMAIN n |-> IF key \in DOMAIN n THEN n[key] ELSE m[key]]

Init ==
    /\ source \in Sources
    /\ compiled = "none"
    /\ instructions = <<>>
    /\ registers = EmptyMap
    /\ devices = EmptyMap
    /\ result = "None"
    /\ nticks = 0
    /\ trace = <<>>
    /\ last = "new"
    /\ written = EmptyMap
    /\ text = NoText
    /\ parsed = NoText
    /\ built = NotRun
    /\ optimized = NotRun
    /\ allocation = NotRun
    /\ generated = NotRun

\* the outcome out of generate_program, and Simulator::new on its output
Compiled(out) ==
    /\ compiled' = out.err
    /\ instructions' = out.mips

\* generate_program followed by Simulator::new on its output
Compile ==
    /\ source.kind # "mips"
    /\ compiled = "none"
    /\ \E how \in InlineOrders : Compiled(generate_program(source.program, how))
    /\ UNCHANGED <<source, registers, devices, result, nticks, trace, last, written, text, parsed,
                   built, optimized, allocation, generated>>

\* Simulator::new on a target program
Load ==
    /\ source.kind = "mips"
    /\ compiled = "none"
    /\ compiled' = "ok"
    /\ instructions' = source.program
    /\ UNCHANGED <<source, registers, devices, result, nticks, trace, last, written, text, parsed,
                   built, optimized, allocation, generated>>

\* the simulator after a tick that ended in st
Ticked(st) ==
    /\ registers' = st.registers
    /\ devices' = st.devices
    /\ result' = st.res
    /\ trace' = st.trace
    /\ written' = Override(written, StoredBy(instructions, st))

\* Simulator::tick; a tick that panicked leaves no simulator to call again
Tick ==
    /\ compiled = "ok"
    /\ result # "Panic"
    /\ nticks < MaxTicks
    /\ Ticked(tick(instructions, registers, devices))
    /\ nticks' = nticks + 1
    /\ last' = "tick"
    /\ UNCHANGED <<source, compiled, instructions, text, parsed,
                   built, optimized, allocation, generated>>

\* Simulator::write
Write ==
    /\ compiled = "ok"
    /\ result # "Panic"
    /\ \E d \in WriteDevices, logic_type \in WriteVariables, v \in Values :
          /\ devices' = SimWrite(devices, d, logic_type, v)
          /\ written' = Override(written, [key \in {<<d, logic_type>>} |-> v])
    /\ last' = "write"
    /\ UNCHANGED <<source, compiled, instructions, registers, result, nticks, trace, text, parsed,
                   built, optimized, allocation, generated>>

Next == Compile \/ Load \/ Tick \/ Write

Spec == Init /\ [][Next]_vars

\* println!("{}", program): the program's text
PrintProgram ==
    /\ compiled = "ok"
    /\ text = NoText
    /\ text' = [cat |-> "Text", lines |-> ProgramText(instructions)]
    /\ UNCHANGED <<source, compiled, instructions, registers, devices, result, nticks, trace,
                   last, written, parsed,
                   built, optimized, allocation, generated>>

\* text.parse::<Program>()
ParseText ==
    /\ text # NoText
    /\ parsed = NoText
    /\ parsed' = ParseProgram(text.lines)
    /\ UNCHANGED <<source, compiled, instructions, registers, devices, result, nticks, trace,
                   last, written, text,
                   built, optimized, allocation, generated>>

TextNext == Compile \/ Load \/ PrintProgram \/ ParseText

\* programs compiled (or given), printed and parsed back
TextSpec == Init /\ [][TextNext]_vars

(***************************************************************************)
(* The middle end stage by stage: generate_ir, optimize and                *)
(* RegisterAllocation::allocate applied one after the other, as            *)
(* ir::generate_program and codegen::State::new apply them.                *)
(***************************************************************************)
MiddleInit ==
    /\ source \in MiddleSources
    /\ compiled = "none"
    /\ instructions = <<>>
    /\ registers = EmptyMap
    /\ devices = EmptyMap
    /\ result = "None"
    /\ nticks = 0
    /\ trace = <<>>
    /\ last = "new"
    /\ written = EmptyMap
    /\ text = NoText
    /\ parsed = NoText
    /\ built = NotRun
    /\ optimized = NotRun
    /\ allocation = NotRun
    /\ generated = NotRun

\* generate_ir: the builder's State when it returns
GenerateIr ==
    /\ built = NotRun
    /\ built' = generate_ir(source.program)
    /\ UNCHANGED <<source, compiled, instructions, registers, devices, result, nticks, trace,
                   last, written, text, parsed, optimized, allocation, generated>>

\* optimize on the program generate_ir returned
Optimize ==
    /\ built.err = "ok"
    /\ optimized = NotRun
    /\ \E how \in InlineOrders : optimized' = optimize(built.program, how)
    /\ UNCHANGED <<source, compiled, instructions, registers, devices, result, nticks, trace,
                   last, written, text, parsed, built, allocation, generated>>

\* what allocate computes on the way: var_to_node, the graph add_edges built, what
\* color_graph made of it, and what allocate returns
Allocated(program) ==
    Bind(InterferenceGraph(program), LAMBDA g :
         [err |-> allocate(program).err,
          var_to_node |-> VarToNode(program),
          graph |-> g,
          coloring |-> IF g.err = "ok" THEN color_graph(g.edges, EmptyMap) ELSE NotRun,
          vars |-> allocate(program).vars])

\* RegisterAllocation::allocate on the optimized program
Allocate ==
    /\ optimized.err = "ok"
    /\ allocation = NotRun
    /\ allocation' = Allocated(optimized.program)
    /\ UNCHANGED <<source, compiled, instructions, registers, devices, result, nticks, trace,
                   last, written, text, parsed, built, optimized, generated>>

\* generate_mips_from_ir on the optimized program
GenerateMipsFromIr ==
    /\ optimized.err = "ok"
    /\ generated = NotRun
    /\ generated' = generate_mips_from_ir(optimized.program)
    /\ UNCHANGED <<source, compiled, instructions, registers, devices, result, nticks, trace,
                   last, written, text, parsed, built, optimized, allocation>>

\* the crate's generate_program (lib.rs):
\* Ok(crate::ir::generate_program(program).unwrap().to_string()); the unwrap of an
\* Err panics, as does a panic further down
LibGenerateProgram ==
    /\ text = NoText
    /\ \E how \in InlineOrders :
          text' = Bind(generate_program(source.program, how), LAMBDA out :
                       IF out.err = "ok" THEN [cat |-> "Text", lines |-> ProgramText(out.mips)]
                       ELSE [cat |-> "Panic", by |-> out.err])
    /\ UNCHANGED <<source, compiled, instructions, registers, devices, result, nticks, trace,
                   last, written, parsed, built, optimized, allocation, generated>>

\* the passes run once more on what they produced: inline on the inlined
\* program, remove_unused_variables and optimize on the optimized one
Reoptimize ==
    /\ optimized.err = "ok"
    /\ "again" \notin DOMAIN optimized
    /\ \E how \in InlineOrders :
          optimized' = [again |-> [inline |-> inline(optimized.inlined, how),
                                   dce |-> remove_unused_variables(optimized.program),
                                   optimize |-> optimize(optimized.program, how)]]
                       @@ optimized
    /\ UNCHANGED <<source, compiled, instructions, registers, devices, result, nticks, trace,
                   last, written, text, parsed, built, allocation, generated>>

MiddleNext ==
    Compile \/ LibGenerateProgram \/ GenerateIr \/ Optimize \/ Reoptimize \/ Allocate
    \/ GenerateMipsFromIr

MiddleSpec == MiddleInit /\ [][MiddleNext]_vars

(***************************************************************************)
(* What the source language means, independently of the compiler: a       *)
(* program is run statement by statement on an environment of variables    *)
(* and on the device store.                                                *)
(***************************************************************************)
RECURSIVE SrcEval(_, _)
\* the value of expression e in s = [env, devs, stores]
SrcEval(e, s) ==
    CASE e.t = "Constant" -> e.v
      [] e.t = "Identifier" -> s.env[e.name]
      [] e.t = "FieldExpr" -> DeviceGet(s.devs, e.d, e.logic)
      [] e.t = "FunctionCall" -> DeviceGet(s.devs, e.args[1].name, e.args[2].name)
      [] e.t = "BinaryOp" ->
            CASE e.op = "Add" -> SrcEval(e.lhs, s) + SrcEval(e.rhs, s)
              [] e.op = "Sub" -> SrcEval(e.lhs, s) - SrcEval(e.rhs, s)
              [] e.op = "Mul" -> SrcEval(e.lhs, s) * SrcEval(e.rhs, s)
              [] e.op = "Greater" -> BoolToNum(SrcEval(e.lhs, s) > SrcEval(e.rhs, s))
              [] e.op = "Equals" -> BoolToNum(SrcEval(e.lhs, s) = SrcEval(e.rhs, s))

\* s after storing x in (d, logic)
SrcStore(s, d, logic, x) ==
    [s EXCEPT !.devs = DevicePut(@, d, logic, x), !.stores = Append(@, <<d, logic, x>>)]

RECURSIVE SrcRun(_, _)
\* s after the statements stmts
SrcRun(stmts, s) ==
    IF stmts = <<>> THEN s
    ELSE LET stmt == Head(stmts)
             after ==
                CASE stmt.t = "Definition" ->
                        [s EXCEPT !.env = MapPut(@, stmt.identifier, SrcEval(stmt.expression, s))]
                  [] stmt.t = "Assignment" ->
                        IF stmt.lhs.t = "Identifier"
                        THEN [s EXCEPT !.env = MapPut(@, stmt.lhs.name, SrcEval(stmt.rhs, s))]
                        ELSE SrcStore(s, stmt.lhs.d, stmt.lhs.logic, SrcEval(stmt.rhs, s))
                  [] stmt.t = "FunctionCall" ->
                        SrcStore(s, stmt.arguments[1].name, stmt.arguments[2].name,
                                 SrcEval(stmt.arguments[3], s))
                  [] stmt.t = "If" ->
                        IF SrcEval(stmt.condition, s) # 0 THEN SrcRun(stmt.body, s) ELSE s
                  [] stmt.t = "IfElse" ->
                        IF SrcEval(stmt.condition, s) # 0 THEN SrcRun(stmt.body, s)
                        ELSE SrcRun(stmt.else_body, s)
         IN  SrcRun(Tail(stmts), after)

\* the device store the last tick started from
Before == IF trace = <<>> THEN devices ELSE trace[1].devices

\* the source program run on the device store the last tick started from
Meant == SrcRun(source.program, [env |-> EmptyMap, devs |-> Before, stores |-> <<>>])

\* the (device, variable) pairs a device store holds
Keys(devs) == UNION {{<<d, v>> : v \in DOMAIN devs[d]} : d \in DOMAIN devs}

\* two device stores read the same everywhere (a pair neither holds reads 0 in both)
SameStore(a, b) ==
    \A key \in Keys(a) \cup Keys(b) : SimRead(a, key[1], key[2]) = SimRead(b, key[1], key[2])

\* the first tick of a compiled program has just returned
FirstTickOf(kind) == source.kind = kind /\ nticks = 1 /\ last = "tick"

ExecutedStores ==
    LET IsStore(t) == instructions[t.i + 1].cat = "DeviceIo" /\ instructions[t.i + 1].op = "s"
        done == SelectSeq(trace, IsStore)
    IN  [k \in 1..Len(done) |->
            <<instructions[done[k].i + 1].device, instructions[done[k].i + 1].variable,
              read(done[k], instructions[done[k].i + 1].register)>>]

\* the stores of a body run on the device store the last tick started from
StoresOf(body) == SrcRun(body, [env |-> EmptyMap, devs |-> Before, stores |-> <<>>]).stores

\* the condition of the program's if, on the device store the last tick started from
Taken(stmt) == SrcEval(stmt.condition, [env |-> EmptyMap, devs |-> Before, stores |-> <<>>]) # 0

\* C2: for a compiled `if c { T } else { F }` and every initial device state, the
\* tick executes the stores of T and none of F when c is non-zero, the stores of F
\* and none of T when c is zero, and then returns End.
C2_OneBranch ==
    FirstTickOf("ifelse") =>
        /\ result = "End"
        /\ ExecutedStores = IF Taken(source.program[1]) THEN StoresOf(source.program[1].body)
                            ELSE StoresOf(source.program[1].else_body)

\* C2 happens: both outcomes of `if load(d0, Setting) > 1 { store(d0, Setting, 1); }
\* else { store(d0, Setting, 2); }`, here the else branch on a pre-written 1
C2_Witness ==
    /\ FirstTickOf("ifelse")
    /\ source.program[1] =
          StmtIfElse(ExprBinaryOp(LoadCall("d0", "Setting"), "Greater", ExprConstant(1)),
                     <<StoreCall("d0", "Setting", ExprConstant(1))>>,
                     <<StoreCall("d0", "Setting", ExprConstant(2))>>)
    /\ SimRead(Before, "d0", "Setting") = 1
    /\ ExecutedStores = <<<<"d0", "Setting", 2>>>>
    /\ result = "End"

\* C3 as stated: a variable defined before an `if` and defined or assigned in a
\* branch has, when read after the if, the value given by the branch taken, and its
\* pre-if value when the branch taken did not define it: the value stored to
\* (d1, Setting) after the if is the one the source gives x.
C3_ValueAfterIf ==
    FirstTickOf("varif") =>
        /\ result = "End"
        /\ SimRead(devices, "d1", "Setting") = Meant.env["x"]

\* C4: for `let x = 0; loop { x = x + 1; store(d0, Setting, x); yield; }` the k-th
\* tick returns Yield and leaves (d0, Setting) = k, whatever was written between
\* the ticks.
C4_LoopCounts ==
    (source.kind = "loop" /\ last = "tick") =>
        result = "Yield" /\ SimRead(devices, "d0", "Setting") = nticks

\* C4 happens: the second tick of the loop has stored 2
C4_Witness ==
    /\ source.kind = "loop"
    /\ last = "tick"
    /\ nticks = 2
    /\ result = "Yield"
    /\ SimRead(devices, "d0", "Setting") = 2

\* the instruction fetched at entry k of the last tick's trace
Fetched(k) == instructions[trace[k].i + 1]

IsYield(ins) == ins.cat = "Misc" /\ ins.op = "yield"

\* the last tick executed no yield (a yield ends the tick, so it could only be last)
NoYield == trace = <<>> \/ ~IsYield(Fetched(Len(trace)))

\* the index that follows the instruction fetched in t = [i, registers, devices]
Successor(t) ==
    LET ins == instructions[t.i + 1]
    IN  IF ins.cat = "FlowControl" /\ ins.op = "beqz"
        THEN IF read(t, ins.a) = 0 THEN read(t, ins.b) ELSE t.i + 1
        ELSE IF ins.cat = "FlowControl" /\ ins.op = "j" THEN read(t, ins.a)
        ELSE t.i + 1

\* sp as the simulator holds it now
CurrentSp == sp([registers |-> registers])

\* C5: a tick never executes more than 127 instructions; when 127 were executed
\* without a yield the tick returns LimitHit, it returns LimitHit in no other case,
\* and sp is then the index of the instruction that follows the 127th.
C5_Limit ==
    last = "tick" =>
        /\ Len(trace) <= 127
        /\ result = "LimitHit" => Len(trace) = 127 /\ CurrentSp = Successor(trace[127])
        /\ (Len(trace) = 127 /\ NoYield /\ result # "Panic") => result = "LimitHit"

\* C5 happens: a tick has hit the limit
C5_Witness == last = "tick" /\ result = "LimitHit" /\ Len(trace) = 127 /\ NoYield

\* a tick returns End exactly when it stopped short of the limit, without a yield,
\* on an sp that designates no instruction (none); after End a tick returns End again
\* and changes nothing
EndStep(none) ==
    nticks' = nticks + 1 =>
        /\ result' = "End" <=> (Len(trace') < 127 /\ NoYield' /\ none)
        /\ result = "End" => result' = "End" /\ registers' = registers /\ devices' = devices

\* C6 as stated: sp designates no instruction when sp >= program length.
C6_EndPastLast == [][EndStep(CurrentSp' >= Len(instructions'))]_vars

\* C6: a tick returns End exactly when, before the limit is hit and before a yield
\* executes, sp designates no instruction (sp < 0 or sp >= program length);
\* returning End changes no register and no device variable, and every later tick
\* returns End with the state unchanged.
C6_End == [][EndStep(CurrentSp' < 0 \/ CurrentSp' >= Len(instructions'))]_vars

\* C6 happens: a second tick has returned End on the sp = -1 that `j -1` left
C6_Witness ==
    /\ last = "tick"
    /\ nticks = 2
    /\ result = "End"
    /\ trace = <<>>
    /\ CurrentSp = -1

\* m without key
Without(m, key) == [x \in (DOMAIN m) \ {key} |-> m[x]]

\* the last tick ended on a yield exactly when it returned Yield, and the yield at
\* index i left sp = i + 1 and every other register and every device as it found them
YieldDone ==
    /\ result = "Yield" <=> ~NoYield
    /\ ~NoYield =>
          LET t == trace[Len(trace)]
          IN  /\ CurrentSp = t.i + 1
              /\ Without(registers, "sp") = Without(t.registers, "sp")
              /\ devices = t.devices

\* the tick after a yield at index i starts at i + 1, or ends at once when the
\* program has no instruction i + 1
Resumes ==
    LET i == trace[Len(trace)].i
    IN  IF i + 1 < Len(instructions) THEN trace' # <<>> /\ trace'[1].i = i + 1
        ELSE trace' = <<>> /\ result' = "End"

\* C7: a tick that executes a yield at index i returns Yield with sp = i + 1 and no
\* other register or device variable changed by the yield; the next tick resumes at
\* instruction i + 1.
C7_Yield == [][nticks' = nticks + 1 => (YieldDone' /\ (result = "Yield" => Resumes))]_vars

\* C7 happens: a second tick started after the yield the first one stopped on
C7_Witness ==
    /\ last = "tick"
    /\ nticks = 2
    /\ result = "Yield"
    /\ trace[1].i > 0

\* C8 as stated: after `beqz a, b` at index i the next instruction executed is b when
\* a is 0 and i + 1 otherwise; after `j a` it is the value of a; every other
\* instruction at index i is followed by instruction i + 1.
C8_Successors ==
    last = "tick" =>
        \A k \in 1..Len(trace) :
            IF k < Len(trace) THEN trace[k + 1].i = Successor(trace[k])
            ELSE result # "Panic" /\ CurrentSp = Successor(trace[k])

\* the simulator state the instruction fetched at entry k of the trace left
Left(k) ==
    IF k < Len(trace) THEN trace[k + 1] ELSE [registers |-> registers, devices |-> devices]

\* C9: `s dev attr reg` sets (dev, attr) to the value of reg and changes no other
\* device variable; `l reg dev attr` sets reg to the value of (dev, attr), 0 when it
\* was never written; Simulator.read returns the value last written by `s` or
\* Simulator.write, 0 if none.
C9_DeviceIo ==
    /\ last = "tick" =>
          \A k \in 1..Len(trace) :
              LET t == trace[k]
                  ins == Fetched(k)
              IN  /\ (ins.cat = "DeviceIo" /\ ins.op = "s") =>
                        \A key \in Keys(t.devices) \cup Keys(Left(k).devices)
                                   \cup {<<ins.device, ins.variable>>} :
                            SimRead(Left(k).devices, key[1], key[2]) =
                                IF key = <<ins.device, ins.variable>> THEN read(t, ins.register)
                                ELSE SimRead(t.devices, key[1], key[2])
                  /\ (ins.cat = "DeviceIo" /\ ins.op = "l") =>
                        MapGet(Left(k).registers, ins.register, 0) =
                            SimRead(t.devices, ins.device, ins.variable)
    /\ \A key \in Keys(devices) \cup DOMAIN written \cup (WriteDevices \X WriteVariables) :
          SimRead(devices, key[1], key[2]) = MapGet(written, key, 0)

\* C9 happens: a tick has stored to a device that held another written variable
\* and has loaded a variable never written
C9_Witness ==
    /\ last = "tick"
    /\ \E k \in 1..Len(trace) :
          /\ Fetched(k).cat = "DeviceIo" /\ Fetched(k).op = "s"
          /\ Keys(trace[k].devices) \ {<<Fetched(k).device, Fetched(k).variable>>} # {}
    /\ \E k \in 1..Len(trace) :
          /\ Fetched(k).cat = "DeviceIo" /\ Fetched(k).op = "l"
          /\ <<Fetched(k).device, Fetched(k).variable>> \notin DOMAIN written
          /\ MapGet(Left(k).registers, Fetched(k).register, 1) = 0

\* C10 as stated: parsing the text printed for an emitted instruction yields the
\* instruction again.
C10_RoundTrip ==
    (source.kind # "mips" /\ text # NoText) =>
        \A k \in 1..Len(instructions) : ParseInstruction(text.lines[k]) = instructions[k]

(***************************************************************************)
(* What the middle end owes: liveness computed over the control-flow graph *)
(* of the IR, independently of add_edges_rec.  A point <<b, i>> is         *)
(* instruction i of block b (both counted from 1); <<b, Len + 1>> is the   *)
(* end of block b.                                                         *)
(***************************************************************************)
Points(program) ==
    UNION {{<<b, i>> : i \in 1..(Len(program.blocks[b].instructions) + 1)} :
              b \in DOMAIN program.blocks}

IsInstruction(program, p) == p[2] <= Len(program.blocks[p[1]].instructions)

InstrAt(program, p) == program.blocks[p[1]].instructions[p[2]]

EndOf(program, b) == <<b, Len(program.blocks[b].instructions) + 1>>

\* the points control reaches next
After(program, p) ==
    IF IsInstruction(program, p) THEN {<<p[1], p[2] + 1>>}
    ELSE {<<n + 1, 1>> : n \in Range(program.blocks[p[1]].next)}

RECURSIVE Forward(_, _, _)
\* the points reached from those of seen without going on from a point of stop
Forward(program, seen, stop) ==
    Bind(UNION {After(program, p) : p \in seen \ stop}, LAMBDA more :
         IF more \subseteq seen THEN seen ELSE Forward(program, seen \cup more, stop))

ReachedAfter(program, p, stop) == Forward(program, After(program, p), stop)

IsPhi(ins) == ins.t = "Assignment" /\ ins.value.t = "Phi"

DefinedAt(program, v) ==
    {p \in Points(program) :
        /\ IsInstruction(program, p)
        /\ InstrAt(program, p).t = "Assignment"
        /\ InstrAt(program, p).id = v}

Operands(ins) ==
    CASE ins.t = "Assignment" -> VarValueUsedVars(ins.value)
      [] ins.t = "Branch" -> VarOrConstUsedVars(ins.cond)
      [] OTHER -> {}

\* where v is read: at the instructions that have it as an operand, and for an
\* operand of a phi at the end of the predecessors its definition reaches
UsedAt(program, v) ==
    {p \in Points(program) :
        /\ IsInstruction(program, p)
        /\ ~IsPhi(InstrAt(program, p))
        /\ v \in Operands(InstrAt(program, p))}
    \cup UNION {{EndOf(program, q + 1) : q \in
                    {q \in Range(program.blocks[j[1]].prev) :
                        \E d \in DefinedAt(program, v) :
                            EndOf(program, q + 1) \in ReachedAfter(program, d, {j})}} :
                j \in {j \in Points(program) :
                          /\ IsInstruction(program, j)
                          /\ IsPhi(InstrAt(program, j))
                          /\ v \in Operands(InstrAt(program, j))}}

\* v holds a value at p that is read on some path going on from p
LiveAfter(program, v, p) ==
    /\ \E d \in DefinedAt(program, v) : p = d \/ p \in ReachedAfter(program, d, {})
    /\ UsedAt(program, v) \cap ReachedAfter(program, p, DefinedAt(program, v)) # {}

Defined(program) ==
    {InstrAt(program, p).id : p \in {p \in Points(program) :
        IsInstruction(program, p) /\ InstrAt(program, p).t = "Assignment"}}

LiveSet(program, p) == {v \in Defined(program) : LiveAfter(program, v, p)}

\* the most values live at one point
Pressure(program) ==
    Bind({Cardinality(LiveSet(program, p)) : p \in Points(program)}, LAMBDA ns :
         CHOOSE n \in ns : \A m \in ns : m <= n)

RECURSIVE Core(_, _)
\* what is left of the nodes S once no node with fewer than NumColors neighbours
\* among those left remains
Core(edges, S) ==
    Bind({n \in S : Cardinality(edges[n] \cap S) < NumColors}, LAMBDA low :
         IF low = {} THEN S ELSE Core(edges, S \ low))

C12_UndefinedName ==
    source.kind = "undefined" =>
        /\ built # NotRun => built.err = "error"
        /\ compiled # "none" => (compiled = "error" /\ instructions = <<>>)

\* C13 as stated: for every AST shape the middle end does not implement (an
\* unsupported statement, a unary operator, an assignment to something that is
\* neither an identifier nor a field) the public entry point returns an error
\* value: it does not panic and returns no target program.
C13_Unsupported ==
    (source.kind = "unsupported" /\ text # NoText) => text.cat = "Err"

\* C14 as stated: a program calling a name that is neither store, load nor a
\* declared function fails to compile with the error of the unknown call, whether
\* or not the result of the call is used.
C14_UnknownCall ==
    (source.kind = "unknowncall" /\ compiled # "none") =>
        (compiled = "error" /\ instructions = <<>>)

\* every VarId assigned in the program is assigned by one instruction, and every
\* VarId read by an instruction is assigned by one
SingleAssignment(program) ==
    /\ \A v \in Defined(program) : Cardinality(DefinedAt(program, v)) = 1
    /\ \A p \in Points(program) :
          IsInstruction(program, p) => Operands(InstrAt(program, p)) \subseteq Defined(program)

HasPhi(program) ==
    \E p \in Points(program) : IsInstruction(program, p) /\ IsPhi(InstrAt(program, p))

\* C15: in the IR generate_ir returns, and in what optimize makes of it, every
\* VarId has exactly one defining Assignment and every VarId used as an operand
\* has one; a block sealed late has its placeholder phis overwritten under the
\* same id, leaving no second definition.
C15_SingleAssignment ==
    /\ (built # NotRun /\ built.err = "ok") =>
          /\ SingleAssignment(built.program)
          /\ \A v \in Defined(built.program) : v < built.next_var
    /\ (optimized # NotRun /\ optimized.err = "ok") => SingleAssignment(optimized.program)

\* C15 happens: a loop whose body was sealed after a placeholder phi had been put
\* in it went through generate_ir and optimize, the phi still there
C15_Witness ==
    /\ source.kind \in {"loop", "nested"}
    /\ \E k \in 1..Len(source.program) : source.program[k].t = "Loop"
    /\ built # NotRun /\ built.err = "ok" /\ HasPhi(built.program)
    /\ optimized # NotRun /\ optimized.err = "ok" /\ HasPhi(optimized.program)

\* the phis of the sealed blocks: [block, id, args, prev]
SealedPhis(st) ==
    {[block |-> p[1] - 1, id |-> InstrAt(st.program, p).id,
      args |-> InstrAt(st.program, p).value.args, prev |-> st.program.blocks[p[1]].prev] :
        p \in {q \in Points(st.program) :
                  /\ IsInstruction(st.program, q)
                  /\ IsPhi(InstrAt(st.program, q))
                  /\ (q[1] - 1) \in st.sealed_blocks}}

\* the value name has at the end of each block of prev, the id own left out
ReachingValues(st, name, prev, own) ==
    SelectSeq([k \in 1..Len(prev) |-> MapGet(st.defs[name], prev[k], 0)],
              LAMBDA i : i # own)

C17_BranchLast ==
    (built # NotRun /\ built.err = "ok") =>
        \A b \in DOMAIN built.program.blocks :
            \A i \in 1..Len(built.program.blocks[b].instructions) :
                built.program.blocks[b].instructions[i].t = "Branch" =>
                    i = Len(built.program.blocks[b].instructions)

\* the phis of a program: [id, args]
PhisOf(program) ==
    {[id |-> InstrAt(program, p).id, args |-> InstrAt(program, p).value.args] :
        p \in {q \in Points(program) :
                  IsInstruction(program, q) /\ IsPhi(InstrAt(program, q))}}

\* C18 as stated: for every Phi of the program handed to the allocator, the result
\* and all the operands are mapped to one node of the interference graph and so
\* to one register, also when a VarId is the result of one Phi and an operand of
\* another, or an operand of two Phis.
C18_PhiUnified ==
    (allocation # NotRun) =>
        \A phi \in PhisOf(optimized.program) : \A o \in Range(phi.args) :
            /\ allocation.var_to_node[o] = allocation.var_to_node[phi.id]
            /\ allocation.err = "ok" => allocation.vars[o] = allocation.vars[phi.id]

RECURSIVE PhiClass(_, _)
\* the values tied to those of S by phis: results with their operands, transitively
PhiClass(program, S) ==
    Bind(S \cup UNION {{phi.id} \cup Range(phi.args) :
                          phi \in {f \in PhisOf(program) :
                                      ({f.id} \cup Range(f.args)) \cap S # {}}},
         LAMBDA T : IF T = S THEN S ELSE PhiClass(program, T))

\* u holds a value still to be read when v is assigned, or the other way round
Overlap(program, u, v) ==
    \/ \E d \in DefinedAt(program, v) : LiveAfter(program, u, d)
    \/ \E d \in DefinedAt(program, u) : LiveAfter(program, v, d)

\* the values an instruction puts in a register: every assigned VarId but the
\* ids of the calls of store, for which no register is written
Valued(program) ==
    {v \in Defined(program) :
        \A p \in DefinedAt(program, v) :
            ~(InstrAt(program, p).value.t = "Call" /\ InstrAt(program, p).value.name = "store")}

\* C19 as stated: when allocate succeeds, two values not unified through a Phi
\* whose live ranges overlap (one is assigned while the other is still read on
\* some later path, around a back edge or through either branch of an if as well)
\* are in different registers.
C19_Interference ==
    (allocation # NotRun /\ allocation.err = "ok") =>
        \A u, v \in Valued(optimized.program) :
            (/\ u # v
             /\ v \notin PhiClass(optimized.program, {u})
             /\ Overlap(optimized.program, u, v)) =>
                allocation.vars[u] # allocation.vars[v]

\* C20: whenever color_graph returns true every node of the graph it was given
\* has a colour in 0..15 and no two nodes joined by an edge have the same colour;
\* the graph add_edge builds is symmetric and has no edge from a node to itself.
C20_Colouring ==
    (allocation # NotRun /\ allocation.graph.err = "ok") =>
        LET edges == allocation.graph.edges
            colors == allocation.coloring.colors
        IN  /\ \A n \in DOMAIN edges :
                  /\ n \notin edges[n]
                  /\ \A m \in edges[n] : m \in DOMAIN edges /\ n \in edges[m]
            /\ Range(allocation.var_to_node) \subseteq DOMAIN edges
            /\ allocation.coloring.ok =>
                  /\ DOMAIN colors = DOMAIN edges
                  /\ \A n \in DOMAIN edges :
                        /\ colors[n] \in 0..(NumColors - 1)
                        /\ \A m \in edges[n] : colors[m] # colors[n]

\* C20 happens: color_graph returned true on a graph in which a node has 15
\* neighbours, and all 16 colours are in use
C20_Witness ==
    /\ allocation # NotRun /\ allocation.graph.err = "ok" /\ allocation.coloring.ok
    /\ \E n \in DOMAIN allocation.graph.edges :
          Cardinality(allocation.graph.edges[n]) = NumColors - 1
    /\ Range(allocation.coloring.colors) = 0..(NumColors - 1)

IsStoreCall(ins) == ins.t = "Assignment" /\ ins.value.t = "Call" /\ ins.value.name = "store"

\* the VarIds read by the store calls and the Branch conditions of a program
RootOperands(program) ==
    UNION {Operands(InstrAt(program, p)) :
              p \in {q \in Points(program) :
                        /\ IsInstruction(program, q)
                        /\ IsStoreCall(InstrAt(program, q)) \/ InstrAt(program, q).t = "Branch"}}

RECURSIVE NeededFrom(_, _)
\* S with the VarIds the definitions of S read, and so on
NeededFrom(program, S) ==
    Bind(S \cup UNION {Operands(InstrAt(program, p)) :
                          p \in UNION {DefinedAt(program, v) : v \in S}},
         LAMBDA T : IF T = S THEN S ELSE NeededFrom(program, T))

\* the store calls, Branches and Yields of a block, in order
Effects(block) == SelectSeq(block.instructions, LAMBDA x : x.t # "Assignment" \/ IsStoreCall(x))

\* C21: after remove_unused_variables every Assignment left is a store call or
\* defines a VarId that a store call or a Branch condition reads, directly or
\* through definitions that are left; every store call, Branch and Yield of the
\* input is still there, in its block and in the same order.
C21_DeadCode ==
    (optimized # NotRun /\ optimized.err = "ok") =>
        /\ \A p \in Points(optimized.program) :
              (IsInstruction(optimized.program, p)
                  /\ InstrAt(optimized.program, p).t = "Assignment") =>
                  \/ IsStoreCall(InstrAt(optimized.program, p))
                  \/ InstrAt(optimized.program, p).id \in
                         NeededFrom(optimized.program, RootOperands(optimized.program))
        /\ Len(optimized.program.blocks) = Len(optimized.inlined.blocks)
        /\ \A b \in DOMAIN optimized.inlined.blocks :
              /\ Effects(optimized.program.blocks[b]) = Effects(optimized.inlined.blocks[b])
              /\ optimized.program.blocks[b].next = optimized.inlined.blocks[b].next
              /\ optimized.program.blocks[b].prev = optimized.inlined.blocks[b].prev

\* C21 happens: remove_unused_variables removed an Assignment from a program with
\* a Branch, a Yield, a store call and a definition the store reads
C21_Witness ==
    /\ optimized # NotRun /\ optimized.err = "ok" /\ optimized.removed_any
    /\ \E b \in DOMAIN optimized.program.blocks :
          \E i \in DOMAIN optimized.program.blocks[b].instructions :
              optimized.program.blocks[b].instructions[i].t = "Branch"
    /\ \E b \in DOMAIN optimized.program.blocks :
          \E i \in DOMAIN optimized.program.blocks[b].instructions :
              optimized.program.blocks[b].instructions[i].t = "Yield"
    /\ \E p \in Points(optimized.program) :
          /\ IsInstruction(optimized.program, p)
          /\ IsStoreCall(InstrAt(optimized.program, p))
          /\ Operands(InstrAt(optimized.program, p)) # {}

\* C22: both passes are idempotent: inline run on what inline produced changes
\* no instruction; remove_unused_variables run on what it produced removes
\* nothing and returns false, and it returns true exactly when it removed an
\* Assignment; so optimize run on what optimize produced gives the same program.
C22_Idempotent ==
    /\ (optimized # NotRun /\ optimized.err = "ok") =>
           (optimized.removed_any <=> optimized.program # optimized.inlined)
    /\ (optimized # NotRun /\ "again" \in DOMAIN optimized) =>
           /\ optimized.again.inline.err = "ok"
           /\ optimized.again.inline.program = optimized.inlined
           /\ optimized.again.dce =
                  [program |-> optimized.program, removed_any |-> FALSE, err |-> "ok"]
           /\ optimized.again.optimize.err = "ok"
           /\ optimized.again.optimize.program = optimized.program

\* what inline_simple's rewriting makes of an operand when every copy has been
\* followed: the operand a chain of Single definitions ends in
RECURSIVE Reduced(_, _, _)
Reduced(program, v, seen) ==
    IF v.k # "Var" \/ v.id \in seen \/ DefinedAt(program, v.id) = {} THEN v
    ELSE Bind(InstrAt(program, CHOOSE p \in DefinedAt(program, v.id) : TRUE).value,
              LAMBDA val : IF val.t = "Single"
                           THEN Reduced(program, val.v, seen \cup {v.id})
                           ELSE v)

\* the operands of a Single, a BinaryOp or a Call
ValueOperands(val) ==
    CASE val.t = "Single" -> {val.v}
      [] val.t = "BinaryOp" -> {val.lhs, val.rhs}
      [] val.t = "Call" -> {val.args[i] : i \in DOMAIN val.args}
      [] OTHER -> {}

IsCopy(program, v) ==
    /\ v.k = "Var"
    /\ \E p \in DefinedAt(program, v.id) : InstrAt(program, p).value.t = "Single"

\* C23: after inline no operand of a Single, a BinaryOp or a Call is a VarId
\* defined by a Single, and no Phi is left whose operands reduce to one value;
\* so `let x = 1; let y = x; let z = y; store(d0, Setting, z);` is optimized to
\* the store alone.
C23_Inlined ==
    (optimized # NotRun /\ optimized.err = "ok") =>
        /\ \A p \in Points(optimized.inlined) :
              (IsInstruction(optimized.inlined, p)
                  /\ InstrAt(optimized.inlined, p).t = "Assignment") =>
                  Bind(InstrAt(optimized.inlined, p).value, LAMBDA val :
                       /\ \A v \in ValueOperands(val) : ~IsCopy(optimized.inlined, v)
                       /\ val.t = "Phi" =>
                              Cardinality({Reduced(optimized.inlined, [k |-> "Var", id |-> a], {}) :
                                              a \in {val.args[i] : i \in DOMAIN val.args}}) # 1)
        /\ source.kind = "chain" =>
              /\ Len(optimized.program.blocks[1].instructions) = 1
              /\ IsStoreCall(optimized.program.blocks[1].instructions[1])

\* the index of the first Branch of a block, 0 when it has none
FirstBranch(block) ==
    IF \E i \in DOMAIN block.instructions : block.instructions[i].t = "Branch"
    THEN CHOOSE i \in DOMAIN block.instructions :
             /\ block.instructions[i].t = "Branch"
             /\ \A j \in 1..(i - 1) : block.instructions[j].t # "Branch"
    ELSE 0

\* the blocks control is handed to from block b, in order: the two targets of
\* its Branch, or its successors
Targets(program, b) ==
    Bind(program.blocks[b + 1], LAMBDA block :
         IF FirstBranch(block) > 0
         THEN <<block.instructions[FirstBranch(block)].true_block,
                block.instructions[FirstBranch(block)].false_block>>
         ELSE block.next)

RECURSIVE ReachedBlocks(_, _)
\* the blocks reached from those of S
ReachedBlocks(program, S) ==
    Bind(S \cup UNION {Range(Targets(program, b)) : b \in S}, LAMBDA T :
         IF T = S THEN S ELSE ReachedBlocks(program, T))

\* a block that hands control to no block
IsFinal(program, b) ==
    FirstBranch(program.blocks[b + 1]) = 0 /\ program.blocks[b + 1].next = <<>>

\* the number of target instructions block b stands for: one for each
\* instruction up to its Branch that is not a Phi, and the closing jump of a
\* block that hands control to no block
Size(program, b) ==
    Bind(program.blocks[b + 1], LAMBDA block :
         Cardinality({i \in DOMAIN block.instructions :
                         /\ FirstBranch(block) > 0 => i <= FirstBranch(block)
                         /\ ~IsPhi(block.instructions[i])})
         + (IF IsFinal(program, b) THEN 1 ELSE 0))

\* how many times control is handed to block b
Encounters(program, b) ==
    Cardinality({<<p, i>> \in ReachedBlocks(program, {0}) \X {1, 2} :
                    i \in DOMAIN Targets(program, p) /\ Targets(program, p)[i] = b})
    + (IF b = 0 THEN 1 ELSE 0)

RECURSIVE SumOver(_, _)
SumOver(S, f) ==
    IF S = {} THEN 0
    ELSE Bind(CHOOSE x \in S : TRUE, LAMBDA x : f[x] + SumOver(S \ {x}, f))

JumpsTo(mips, n) == {i \in DOMAIN mips : mips[i] = Jump(Num(n))}

\* C24: in the output of generate_mips_from_ir every IR block reached from block
\* 0 is emitted once, at its recorded start, and every further encounter is a
\* jump to that start; a block without successor ends with a jump to the length
\* of the instruction vector; no jump and no beqz keeps the placeholder -1.
C24_Layout ==
    (generated # NotRun /\ generated.err = "ok") =>
        Bind(ReachedBlocks(optimized.program, {0}), LAMBDA R :
             /\ DOMAIN generated.block_start = R
             /\ Len(generated.mips) =
                    SumOver(R, [b \in R |-> Size(optimized.program, b)
                                             + Encounters(optimized.program, b) - 1])
             /\ \A b \in R :
                    /\ generated.block_start[b] \in 0..(Len(generated.mips) - 1)
                    /\ Cardinality(JumpsTo(generated.mips, generated.block_start[b])) =
                           SumOver({c \in R : generated.block_start[c] = generated.block_start[b]},
                                   [c \in R |-> Encounters(optimized.program, c) - 1])
                    /\ IsFinal(optimized.program, b) =>
                           generated.mips[generated.block_start[b] + Size(optimized.program, b)]
                               = Jump(Num(Len(generated.mips)))
             /\ Cardinality(JumpsTo(generated.mips, Len(generated.mips))) =
                    Cardinality({b \in R : IsFinal(optimized.program, b)})
             /\ \A i \in DOMAIN generated.mips :
                    /\ generated.mips[i].op = "j" => generated.mips[i].a # Num(-1)
                    /\ generated.mips[i].op = "beqz" => generated.mips[i].b # Num(-1))

\* C24 happens: a block was encountered twice and a block without successor was
\* emitted
C24_Witness ==
    /\ generated # NotRun /\ generated.err = "ok"
    /\ \E b \in ReachedBlocks(optimized.program, {0}) : Encounters(optimized.program, b) > 1
    /\ \E b \in ReachedBlocks(optimized.program, {0}) : IsFinal(optimized.program, b)
    /\ \E i \in DOMAIN generated.mips : generated.mips[i].op = "beqz"

\* the blocks (ids from 0) reached from the entry block along next
RECURSIVE ReachableBlocks(_, _)
ReachableBlocks(program, S) ==
    Bind(S \cup UNION {Range(program.blocks[b + 1].next) : b \in S}, LAMBDA T :
         IF T = S THEN S ELSE ReachableBlocks(program, T))

\* C25: when generate_ir returns, every block reachable from the entry block is
\* sealed and has no placeholder phi unresolved: each placeholder recorded while
\* the block was unsealed stands at its recorded index under its own VarId as a
\* Phi of the values its name has at the end of the block's predecessors.
C25_Sealed ==
    (built # NotRun /\ built.err = "ok") =>
        \A b \in ReachableBlocks(built.program, {0}) :
            /\ b \in built.sealed_blocks
            /\ MapGet(built.unresolved_phis, b, <<>>) = <<>>
            /\ \A ph \in built.placeholders :
                  ph[1] = b =>
                      built.program.blocks[b + 1].instructions[ph[4] + 1] =
                          Assignment(ph[3],
                                     Phi(ReachingValues(built, ph[2],
                                                        built.program.blocks[b + 1].prev, ph[3])))

\* C25 happens: generate_ir returned a loop inside a loop, or inside an if of a
\* loop, the inner body reachable and with a placeholder recorded in it
C25_Witness ==
    /\ built # NotRun /\ built.err = "ok"
    /\ source.kind = "loops"
    /\ \E ph \in built.placeholders :
          /\ ph[1] \in ReachableBlocks(built.program, {0})
          /\ ph[1] \in Range(built.program.blocks[ph[1] + 1].prev)
          /\ \E q \in built.placeholders : q[1] # ph[1] /\ q[1] \in ReachableBlocks(built.program, {0})

IsConstant(stmt, name) == stmt.t = "Constant" /\ stmt.identifier = name

\* name is a constant where the last statement of program stands
NamesConstant(program, name) ==
    name \in Externals \/ \E k \in DOMAIN program : IsConstant(program[k], name)

\* what name stands for there: the number of its last declaration
\* `const name = c;`, or the external a pre-declared name is
NamedConstant(program, name) ==
    IF \E k \in DOMAIN program : IsConstant(program[k], name)
    THEN Const(program[CHOOSE k \in DOMAIN program :
                           /\ IsConstant(program[k], name)
                           /\ \A j \in (k + 1)..Len(program) : ~IsConstant(program[j], name)
                      ].expression.v)
    ELSE External(name)

\* the identifiers the store a program ends with reads: <<argument, name>>
LastReads(program) ==
    Bind(program[Len(program)], LAMBDA stmt :
         IF stmt.t = "FunctionCall"
         THEN {<<i, stmt.arguments[i].name>> :
                  i \in {j \in DOMAIN stmt.arguments : stmt.arguments[j].t = "Identifier"}}
         ELSE {<<1, stmt.lhs.d>>, <<2, stmt.lhs.logic>>})

\* C26: an identifier that names a constant, declared by const or pre-declared,
\* is read as the constant's value, also when the same name was bound by let or
\* assigned before or after the declaration.
C26_Constants ==
    (built # NotRun /\ source.kind = "consts") =>
        /\ built.err = "ok"
        /\ Bind(SelectSeq(built.program.blocks[1].instructions, IsStoreCall), LAMBDA stores :
                /\ stores # <<>>
                /\ \A r \in LastReads(source.program) :
                      NamesConstant(source.program, r[2]) =>
                          stores[Len(stores)].value.args[r[1]]
                              = NamedConstant(source.program, r[2]))

\* C26 happens: generate_ir returned a program whose last statement reads a
\* constant that has a definition by let or an assignment as well
C26_Witness ==
    /\ built # NotRun /\ built.err = "ok" /\ source.kind = "consts"
    /\ \E r \in LastReads(source.program) :
          /\ r[2] \in DOMAIN built.consts
          /\ r[2] \in DOMAIN built.defs
          /\ \E k \in DOMAIN source.program : IsConstant(source.program[k], r[2])

\* the outcomes of the four stages that have run
Outcomes ==
    {x.err : x \in {built, optimized, allocation, generated} \ {NotRun}}
    \cup (IF allocation # NotRun THEN {allocation.graph.err} ELSE {})
    \cup (IF optimized # NotRun /\ "again" \in DOMAIN optimized
          THEN {optimized.again.inline.err, optimized.again.optimize.err} ELSE {})

\* C27: on every control-flow graph, those with cycles included, each recursive
\* walk of the middle end returns: read_variable, seal_block, inline_variable,
\* add_edges_rec and generate_block never go on after as many calls as there are
\* places to go to (blocks and names, blocks, VarIds, program points, blocks).
C27_Terminates ==
    /\ "overflow" \notin Outcomes
    /\ compiled # "overflow"
    /\ built # NotRun =>
          /\ built.seals <= Len(built.program.blocks)
          /\ built.reads <= Len(built.program.blocks) * Cardinality(DOMAIN built.defs)
    /\ (optimized # NotRun /\ optimized.err = "ok") =>
          optimized.calls <= Cardinality(AssignedVars(built.program))
    /\ allocation # NotRun =>
          allocation.graph.calls <= Cardinality(Points(optimized.program))
    /\ generated # NotRun => generated.calls <= Len(optimized.program.blocks)

\* C27 happens: the stages ran on a loop in a loop; read_variable went through
\* the predecessors, seal_block through the successors, inline_variable through
\* the phis, add_edges_rec round a loop and generate_block into the inner body
C27_Witness ==
    /\ source.kind = "loops"
    /\ built # NotRun /\ built.err = "ok" /\ built.seals >= 2 /\ built.reads >= 1
    /\ optimized # NotRun /\ optimized.err = "ok" /\ optimized.calls >= 4
    /\ allocation # NotRun /\ allocation.err = "ok" /\ allocation.graph.calls >= 4
    /\ generated # NotRun /\ generated.err = "ok" /\ generated.calls >= 3
    /\ \E b \in ReachableBlocks(optimized.program, {0}) :
          /\ b \in ReachableBlocks(optimized.program, Range(optimized.program.blocks[b + 1].next))
          /\ Len(optimized.program.blocks[b + 1].prev) = 2

\* C28: compilation is deterministic: two compilations of one AST give the same
\* target instructions (or fail alike), whatever order inline's hash set yields
\* the VarIds in.
C28_Deterministic ==
    (compiled # "none" /\ text # NoText) =>
        \/ compiled = "ok" /\ text = [cat |-> "Text", lines |-> ProgramText(instructions)]
        \/ compiled # "ok" /\ text = [cat |-> "Panic", by |-> compiled]

\* the registers after the k-th instruction of the last tick
RegistersAfter(k) == IF k < Len(trace) THEN trace[k + 1].registers ELSE registers

\* C29: no tick of a compiled program reaches an unimplemented path of the
\* simulator, and a register-to-register `move r r'` leaves in r the value r' had.
C29_Implemented ==
    (source.kind # "mips" /\ compiled = "ok") =>
        /\ result # "Panic"
        /\ \A k \in 1..Len(trace) :
              Bind(instructions[trace[k].i + 1], LAMBDA ins :
                   (ins.op = "move" /\ ins.a.k = "Register") =>
                       MapGet(RegistersAfter(k), ins.register, 0)
                           = MapGet(trace[k].registers, ins.a.r, 0))

\* the number of target instructions block b stands for when none of its
\* instructions is skipped: one for each instruction that is not a Phi, and the
\* closing jump of a block that hands control to no block
FullSize(program, b) ==
    Cardinality({i \in DOMAIN program.blocks[b + 1].instructions :
                    ~IsPhi(program.blocks[b + 1].instructions[i])})
    + (IF IsFinal(program, b) THEN 1 ELSE 0)

\* C30: every Assignment that is not a Phi and every Yield left by optimize in a
\* block reached from block 0 has its target instruction: the code generator
\* skips no instruction of a block it emits, none after the block's Branch either.
C30_NothingSkipped ==
    (generated # NotRun /\ generated.err = "ok") =>
        Bind(ReachedBlocks(optimized.program, {0}), LAMBDA R :
             Len(generated.mips) =
                 SumOver(R, [b \in R |-> FullSize(optimized.program, b)
                                          + Encounters(optimized.program, b) - 1]))
====
